---- MODULE Spec2Model ----
(***************************************************************************)
(* A model of the price service of malva-mcp (services/price-service.ts):  *)
(* the quote cache (fetchWithCache), the quote fetch (getAssetPrice), the  *)
(* candle aggregator (updateOHLCCandles), the candle read (getOHLCData)    *)
(* and the background poller (startPricePolling); and of the RSI service   *)
(* (services/rsi-service.ts) that reads its candles through getOHLCData.   *)
(*                                                                         *)
(* Time is counted in seconds: a timestamp t of the model is the reading   *)
(* Date.now() = 1000 * t of the program.  The longest interval, 1M, lasts  *)
(* 2 592 000 000 ms, which is more than a 32-bit integer holds.            *)
(***************************************************************************)
EXTENDS Integers, Sequences, FiniteSets, Bags, TLC

VARIABLES
    ohlcStorage,   \* PriceService.ohlcStorage: asset -> interval -> candles
    observed,      \* history (SpecIngest): asset -> the observations ingested
    now,           \* the reading of Date.now()
    nextPoll,      \* when the timer of startPricePolling fires next
    cache,         \* PriceService.cache, in insertion order
    pollInflight,  \* asset -> upstream requests of the poller not yet answered
    client,        \* the call of a tool handler that has not returned yet
    stores,        \* the then-callbacks of fetchWithCache that are due, in order
    fetching,      \* (SpecCache) the keys whose fetcher has not answered yet
    calls,         \* the number of calls of the client
    resp,          \* the call that returned in the last step and its result
    lastFetch,     \* history: asset -> the last fetch that fetchWithCache stored
    transports,    \* server.ts: the ids of the sessions that have a transport
    exchange,      \* server.ts: the request answered in the last step and its answer
    handlers,      \* server.ts: the calls of handleMCPRequest that wait at an await
    rsiCall,       \* RSIService.calculateRSI: one call and its result
    mtfCall,       \* RSIService.getMultiTimeframeRSI: one call and its result
    portfolioCall, \* RSIService.getPortfolioSignals: one call and its result
    signalCall,    \* detectBuySignal, detectExitSignal or detectRSIDivergence:
                   \* one call and its result
    analysisCall,  \* RSIService.analyzeAsset: one call and its result
    tasks,         \* the calls of analyzeAsset and getMultiTimeframeRSI that run
    resumes,       \* the tasks whose await has settled, in the order they resume
    maxCandlesPerInterval  \* PriceService.maxCandlesPerInterval

aggVars == <<ohlcStorage, observed>>
svcVars == <<now, nextPoll, cache, pollInflight, client, stores, fetching, calls,
            resp, lastFetch>>
\* The state of the HTTP server and of the calls of the RSI service.
sigVars == <<signalCall, analysisCall, tasks, resumes, maxCandlesPerInterval>>
taskVars == <<tasks, resumes>>
srvVars == <<transports, exchange, handlers>>
extVars == <<transports, exchange, handlers, rsiCall, mtfCall, portfolioCall,
             signalCall, analysisCall, maxCandlesPerInterval>>
vars == <<ohlcStorage, observed, now, nextPoll, cache, pollInflight, client,
          stores, fetching, calls, resp, lastFetch, transports, exchange, handlers, rsiCall,
          mtfCall, portfolioCall, signalCall, analysisCall, tasks, resumes,
          maxCandlesPerInterval>>

(***************************************************************************)
(* Bounds of the model.                                                    *)
(***************************************************************************)
MaxPrice == 2          \* the numeric prices are 1..MaxPrice
MaxStep == 3           \* timestamps are Epoch .. Epoch + MaxStep
MaxObserved == 3       \* observations ingested per behaviour
MAX_CANDLES == 2       \* process.env.MAX_CANDLES of the runs that fill a series
MaxClock == 6          \* the service is followed for MaxClock seconds
MaxInflight == 1       \* unanswered requests of the poller per asset
MaxCount == 2          \* a client asks for 1..MaxCount candles
MaxCalls == 1          \* requests of the client per behaviour

\* 210 days minus 2 s: the buckets of all six intervals end at Epoch + 2.
Epoch == 18143998

\* NaN, the value of parseFloat for a text that starts with no number.  It
\* stands apart from every price the model works with.
NaN == 0 - 1000000

\* The prices handed to updateOHLCCandles: parseFloat yields a number or NaN.
Prices == 1..MaxPrice \cup {NaN}
Timestamps == Epoch..(Epoch + MaxStep)

(***************************************************************************)
(* config/assets.ts                                                        *)
(***************************************************************************)
\* The registry has eleven instruments.  A run of the model follows some of
\* them, named by their symbols: those that the candle storage has series
\* for from the start.  The price service alone is followed with two, the
\* RSI service with four, two of one category and one of each other.
SOLANA_ASSETS == DOMAIN ohlcStorage

ASSET_CATEGORY ==
    [a \in {"WBTC", "cbBTC", "TSLAx", "PAXG"} |->
        CASE a = "WBTC" -> "wrapped-btc"
          [] a = "cbBTC" -> "wrapped-btc"
          [] a = "TSLAx" -> "rwa-stocks"
          [] a = "PAXG" -> "gold"]

\* A duration of ms milliseconds, in seconds.
Seconds(ms) == ms \div 1000

\* TIME_INTERVALS[interval].duration
TIME_INTERVALS ==
    [ i \in {"1s", "1m", "5m", "1h", "1w", "1M"} |->
        CASE i = "1s" -> Seconds(1000)
          [] i = "1m" -> 60 * Seconds(1000)
          [] i = "5m" -> 5 * 60 * Seconds(1000)
          [] i = "1h" -> 60 * 60 * Seconds(1000)
          [] i = "1w" -> 7 * 24 * 60 * 60 * Seconds(1000)
          [] i = "1M" -> 30 * 24 * 60 * 60 * Seconds(1000) ]

TimeInterval == DOMAIN TIME_INTERVALS

(***************************************************************************)
(* Helpers on sequences of numbers.                                        *)
(***************************************************************************)
Max(a, b) == IF a >= b THEN a ELSE b
Min(a, b) == IF a <= b THEN a ELSE b

\* Math.max(a, b) and Math.min(a, b): NaN when an argument is NaN.
MathMax(a, b) == IF a = NaN \/ b = NaN THEN NaN ELSE Max(a, b)
MathMin(a, b) == IF a = NaN \/ b = NaN THEN NaN ELSE Min(a, b)

\* a <= b as the program compares numbers: false when one of them is NaN.
AtMost(a, b) == a # NaN /\ b # NaN /\ a <= b

(***************************************************************************)
(* The numbers of the program are IEEE 754 doubles.  The prices and the    *)
(* closes that the model works with are whole numbers (and NaN), kept as   *)
(* integers; every value that the program computes from them with + - * /  *)
(* is kept as the double it is: a record with the kind k ("finite", "inf"  *)
(* or "nan"), the sign s and, for a finite number, the exponent e and the  *)
(* significand hi * 2^28 + lo of 53 bits, 2^24 <= hi < 2^25 (0 is hi = 0,  *)
(* lo = 0, e = 0): the value is (-1)^s * (hi * 2^28 + lo) * 2^e.  Each     *)
(* operation rounds its exact result to the nearest double, to the even    *)
(* significand on a tie.  The values of the model stay far from the        *)
(* largest and the smallest double, and the sign of a zero is not kept.    *)
(* Intermediate results are naturals of four digits to the base 2^28, the  *)
(* lowest first.                                                           *)
(***************************************************************************)
Two28 == 2 ^ 28
Two14 == 2 ^ 14

nan == [k |-> "nan", s |-> 0, e |-> 0, hi |-> 0, lo |-> 0]
infinity(s) == [k |-> "inf", s |-> s, e |-> 0, hi |-> 0, lo |-> 0]
zero == [k |-> "finite", s |-> 0, e |-> 0, hi |-> 0, lo |-> 0]
finite(s, e, hi, lo) == [k |-> "finite", s |-> s, e |-> e, hi |-> hi, lo |-> lo]

\* The values null and undefined, in the shape of a number.
null == [k |-> "null", s |-> 0, e |-> 0, hi |-> 0, lo |-> 0]
undefined == [k |-> "undefined", s |-> 0, e |-> 0, hi |-> 0, lo |-> 0]

isZero(x) == x.k = "finite" /\ x.hi = 0 /\ x.lo = 0

\* The number of binary digits of a natural, seven at a time.
RECURSIVE bits(_)
bits(x) ==
    IF x >= 128 THEN 7 + bits(x \div 128)
    ELSE IF x >= 64 THEN 7
    ELSE IF x >= 32 THEN 6
    ELSE IF x >= 16 THEN 5
    ELSE IF x >= 8 THEN 4
    ELSE IF x >= 4 THEN 3
    ELSE IF x >= 2 THEN 2
    ELSE x

\* The highest digit of w that is not 0, 1 when there is none.
RECURSIVE top(_, _)
top(w, i) == IF i = 1 \/ w[i] # 0 THEN i ELSE top(w, i - 1)

digitBits(w, i) == 28 * (i - 1) + bits(w[i])

wideBits(w) == digitBits(w, top(w, 4))

chunkAt(w, i) == IF i >= 1 /\ i <= 4 THEN w[i] ELSE 0

\* w \div 2^n and w * 2^n
rightDigit(w, n, i) ==
    (chunkAt(w, i + n \div 28) \div (2 ^ (n % 28)))
      + (chunkAt(w, i + n \div 28 + 1) % (2 ^ (n % 28))) * (2 ^ (28 - (n % 28)))

leftDigit(w, n, i) ==
    ((chunkAt(w, i - n \div 28) % (2 ^ (28 - (n % 28)))) * (2 ^ (n % 28)))
      + (chunkAt(w, i - n \div 28 - 1) \div (2 ^ (28 - (n % 28))))

shiftRight(w, n) ==
    <<rightDigit(w, n, 1), rightDigit(w, n, 2), rightDigit(w, n, 3), rightDigit(w, n, 4)>>

shiftLeft(w, n) ==
    <<leftDigit(w, n, 1), leftDigit(w, n, 2), leftDigit(w, n, 3), leftDigit(w, n, 4)>>

\* What the digits up to the i-th carry into the next one in a + b, and
\* what they borrow from it in a - b.
RECURSIVE carry(_, _, _)
carry(a, b, i) == IF i = 0 THEN 0 ELSE (a[i] + b[i] + carry(a, b, i - 1)) \div Two28

RECURSIVE borrow(_, _, _)
borrow(a, b, i) ==
    IF i = 0 THEN 0 ELSE IF a[i] - b[i] - borrow(a, b, i - 1) < 0 THEN 1 ELSE 0

sumDigit(a, b, i) == (a[i] + b[i] + carry(a, b, i - 1)) % Two28

addWide(a, b) ==
    <<sumDigit(a, b, 1), sumDigit(a, b, 2), sumDigit(a, b, 3),
      a[4] + b[4] + carry(a, b, 3)>>

differenceDigit(a, b, i) == (a[i] - b[i] - borrow(a, b, i - 1) + Two28) % Two28

\* a - b for a >= b
subWide(a, b) ==
    <<differenceDigit(a, b, 1), differenceDigit(a, b, 2), differenceDigit(a, b, 3),
      a[4] - b[4] - borrow(a, b, 3)>>

lessWide(a, b) ==
    \/ a[4] < b[4]
    \/ a[4] = b[4] /\ a[3] < b[3]
    \/ a[4] = b[4] /\ a[3] = b[3] /\ a[2] < b[2]
    \/ a[4] = b[4] /\ a[3] = b[3] /\ a[2] = b[2] /\ a[1] < b[1]

\* The number of the significand hi * 2^28 + lo, where lo may have run
\* over by the one that rounding up adds.
normal(s, e, hi, lo) ==
    IF hi + lo \div Two28 = 2 ^ 25 THEN finite(s, e + 1, 2 ^ 24, 0)
    ELSE finite(s, e, hi + lo \div Two28, lo % Two28)

\* m is the significand cut off after its last digit; up says that the
\* digits cut off make more than a half, or a half and the last digit odd.
roundedUp(s, e, m, up) == normal(s, e, m[2], IF up THEN m[1] + 1 ELSE m[1])

\* t holds 54 digits: the significand and the digit after it; rest says
\* whether a digit below them is not 0.  Round to nearest, ties to even.
nearest(s, e, t, rest) ==
    roundedUp(s, e, shiftRight(t, 1),
              t[1] % 2 = 1 /\ (rest \/ (t[1] \div 2) % 2 = 1))

\* A natural of at most 53 digits is a significand as it is.
exact(s, e, m) == finite(s, e, m[2], m[1])

rounded(s, w, e, inexact, n) ==
    IF n = 0 THEN zero
    ELSE IF n <= 53 THEN exact(s, e - (53 - n), shiftLeft(w, 53 - n))
    ELSE nearest(s, e + (n - 53), shiftRight(w, n - 54),
                 inexact \/ shiftLeft(shiftRight(w, n - 54), n - 54) # w)

\* The double nearest to (-1)^s * w * 2^e, or to a value just above it when
\* inexact says that digits below w were dropped: round to nearest, ties to
\* even.
round(s, w, e, inexact) == rounded(s, w, e, inexact, wideBits(w))

abs(n) == IF n < 0 THEN 0 - n ELSE n

\* The double of a whole number.
fromInt(n) ==
    round(IF n < 0 THEN 1 ELSE 0, <<abs(n) % Two28, abs(n) \div Two28, 0, 0>>, 0, FALSE)

magnitude(x) == <<x.lo, x.hi, 0, 0>>

\* The sum of s * a and t * b, both times 2^e, for signs s and t.
summed(s, t, a, b, e) ==
    IF s # t /\ a = b THEN zero
    ELSE round(IF s # t /\ lessWide(a, b) THEN t ELSE s,
               IF s = t THEN addWide(a, b)
               ELSE IF lessWide(a, b) THEN subWide(b, a)
               ELSE subWide(a, b),
               e, FALSE)

\* big has the exponent that is not the smaller one.
aligned(big, small) ==
    IF big.e - small.e > 56 THEN big
    ELSE summed(big.s, small.s, shiftLeft(magnitude(big), big.e - small.e),
                magnitude(small), small.e)

plusFinite(x, y) ==
    IF isZero(x) THEN y
    ELSE IF isZero(y) THEN x
    ELSE IF x.e >= y.e THEN aligned(x, y)
    ELSE aligned(y, x)

\* x + y
plus(x, y) ==
    IF x.k = "nan" \/ y.k = "nan" THEN nan
    ELSE IF x.k = "inf" /\ y.k = "inf" THEN (IF x.s = y.s THEN x ELSE nan)
    ELSE IF x.k = "inf" THEN x
    ELSE IF y.k = "inf" THEN y
    ELSE plusFinite(x, y)

negate(x) == IF x.k = "nan" \/ isZero(x) THEN x ELSE [x EXCEPT !.s = 1 - x.s]

\* x - y
minus(x, y) == plus(x, negate(y))

\* The significand as four digits to the base 2^14, and the product of two
\* significands.
limbs(x) == <<x.lo % Two14, x.lo \div Two14, x.hi % Two14, x.hi \div Two14>>

limbAt(a, i) == IF i >= 1 /\ i <= 4 THEN a[i] ELSE 0

column(a, b, k) ==
    a[1] * limbAt(b, k) + a[2] * limbAt(b, k - 1) + a[3] * limbAt(b, k - 2)
      + a[4] * limbAt(b, k - 3)

\* The k-th column with what the columns before it carry into it.
RECURSIVE term(_, _, _)
term(a, b, k) == IF k = 0 THEN 0 ELSE column(a, b, k) + term(a, b, k - 1) \div Two14

productDigit(a, b, i) ==
    (term(a, b, 2 * i - 1) % Two14) + (term(a, b, 2 * i) % Two14) * Two14

product(a, b) ==
    <<productDigit(a, b, 1), productDigit(a, b, 2), productDigit(a, b, 3), term(a, b, 7)>>

xor(s, t) == IF s = t THEN 0 ELSE 1

\* x * y
times(x, y) ==
    IF x.k = "nan" \/ y.k = "nan" THEN nan
    ELSE IF x.k = "inf" \/ y.k = "inf"
    THEN (IF isZero(x) \/ isZero(y) THEN nan ELSE infinity(xor(x.s, y.s)))
    ELSE IF isZero(x) \/ isZero(y) THEN zero
    ELSE round(xor(x.s, y.s), product(limbs(x), limbs(y)), x.e + y.e, FALSE)

\* One digit to the base 2^14 of the quotient of two significands by long
\* division.  For a remainder r below the significand of y the digit is
\* r * 2^14 \div y; it is estimated from the leading digits, never too
\* high, and corrected upwards with the remainder that it leaves.
RECURSIVE corrected(_, _, _)
corrected(q, r, d) ==
    IF lessWide(r, d) THEN [q |-> q, r |-> r]
    ELSE corrected(q + 1, subWide(r, d), d)

estimated(r, y, estimate) ==
    corrected(estimate,
              subWide(shiftLeft(r, 14), product(limbs(y), <<estimate, 0, 0, 0>>)),
              magnitude(y))

digit(r, y) == estimated(r, y, shiftRight(r, 25)[1] \div (y.hi \div (2 ^ 11) + 1))

\* The next n digits of the quotient after the digits q, and the remainder
\* that they leave.
RECURSIVE longDivision(_, _, _, _)
continued(d, y, q, n) == longDivision(d.r, y, Append(q, d.q), n - 1)

longDivision(r, y, q, n) ==
    IF n = 0 THEN [q |-> q, r |-> r] ELSE continued(digit(r, y), y, q, n)

\* The quotient of the significands to 56 binary digits after the point,
\* rounded once: first is the digit before the point.
quotient(x, y, first, d) ==
    round(xor(x.s, y.s),
          <<d.q[3] * Two14 + d.q[4], d.q[1] * Two14 + d.q[2], first, 0>>,
          x.e - y.e - 56, d.r # <<0, 0, 0, 0>>)

divideFinite(x, y) ==
    IF lessWide(magnitude(x), magnitude(y))
    THEN quotient(x, y, 0, longDivision(magnitude(x), y, <<>>, 4))
    ELSE quotient(x, y, 1,
                  longDivision(subWide(magnitude(x), magnitude(y)), y, <<>>, 4))

\* x / y
divide(x, y) ==
    IF x.k = "nan" \/ y.k = "nan" THEN nan
    ELSE IF x.k = "inf" THEN (IF y.k = "inf" THEN nan ELSE infinity(xor(x.s, y.s)))
    ELSE IF y.k = "inf" THEN zero
    ELSE IF isZero(y) THEN (IF isZero(x) THEN nan ELSE infinity(x.s))
    ELSE IF isZero(x) THEN zero
    ELSE divideFinite(x, y)

\* |x| < |y| for two numbers that are not NaN
magnitudeLess(x, y) ==
    IF y.k = "inf" THEN x.k # "inf"
    ELSE IF x.k = "inf" THEN FALSE
    ELSE IF isZero(y) THEN FALSE
    ELSE IF isZero(x) THEN TRUE
    ELSE \/ x.e < y.e
         \/ x.e = y.e /\ x.hi < y.hi
         \/ x.e = y.e /\ x.hi = y.hi /\ x.lo < y.lo

negative(x) == x.s = 1

\* x < y on numbers: false when one of them is NaN.  null counts as 0 and
\* undefined as NaN, as the comparison converts them.
toNumber(x) == IF x.k = "null" THEN zero ELSE IF x.k = "undefined" THEN nan ELSE x

ordered(a, b) ==
    /\ a.k # "nan"
    /\ b.k # "nan"
    /\ IF negative(a) /\ negative(b) THEN magnitudeLess(b, a)
       ELSE IF negative(a) THEN TRUE
       ELSE IF negative(b) THEN FALSE
       ELSE magnitudeLess(a, b)

lessThan(x, y) == ordered(toNumber(x), toNumber(y))

\* x > y, x <= y and x >= y
greaterThan(x, y) == lessThan(y, x)
atMost(x, y) == lessThan(x, y) \/ (toNumber(x).k # "nan" /\ toNumber(x) = toNumber(y))
atLeast(x, y) == atMost(y, x)

\* Math.min(x, y): NaN when one of them is NaN
mathMin(x, y) ==
    IF x.k = "nan" \/ y.k = "nan" THEN nan ELSE IF lessThan(y, x) THEN y ELSE x

\* The number of a price or a close of the model.
Number(n) == IF n = NaN THEN nan ELSE fromInt(n)

\* The decimal literal n / d of the source, d a power of ten: the double
\* nearest to it.
decimal(n, d) == divide(fromInt(n), fromInt(d))

(***************************************************************************)
(* PriceService.updateOHLCCandles                                          *)
(***************************************************************************)
\* Math.floor(timestamp / intervalDuration) * intervalDuration
currentCandleTime(timestamp, intervalDuration) ==
    (timestamp \div intervalDuration) * intervalDuration

\* candles.find(c => c.timestamp === currentCandleTime): the index of the
\* first candle of that bucket, 0 when there is none.
findCandle(candles, t) ==
    IF \E k \in 1..Len(candles) : candles[k].timestamp = t
    THEN CHOOSE k \in 1..Len(candles) :
            /\ candles[k].timestamp = t
            /\ \A j \in 1..(k - 1) : candles[j].timestamp # t
    ELSE 0

\* The candle created for a bucket without one.
newCandle(t, price) ==
    [timestamp |-> t, open |-> price, high |-> price, low |-> price,
     close |-> price, volume |-> 0]

\* A mutation of updateCandle: the high is overwritten by the new price.
updateCandleHighIsLast(c, price) ==
    [c EXCEPT !.high = price, !.low = MathMin(c.low, price), !.close = price]

\* A mutation of updateCandle: the candle is opened again at the new price.
updateCandleReopens(c, price) ==
    [c EXCEPT !.open = price,
              !.high = MathMax(c.high, price),
              !.low = MathMin(c.low, price),
              !.close = price]

\* The update of the candle that exists for the bucket.
updateCandle(c, price) ==
    [c EXCEPT !.high = MathMax(c.high, price),
              !.low = MathMin(c.low, price),
              !.close = price]

\* A mutation of keepLastCandles: the newest candle is dropped on overflow.
keepLastCandlesDropNewest(candles) ==
    IF Len(candles) > maxCandlesPerInterval
    THEN SubSeq(candles, 1, Len(candles) - 1)
    ELSE candles

\* if (candles.length > this.maxCandlesPerInterval) candles.shift()
keepLastCandles(candles) ==
    IF Len(candles) > maxCandlesPerInterval THEN Tail(candles) ELSE candles

\* The body of the forEach for one interval.
updateSeries(candles, intervalDuration, price, timestamp) ==
    LET t == currentCandleTime(timestamp, intervalDuration)
        k == findCandle(candles, t)
    IN  IF k = 0
        THEN keepLastCandles(Append(candles, newCandle(t, price)))
        ELSE [candles EXCEPT ![k] = updateCandle(candles[k], price)]

\* A mutation of updateOHLCCandles: only the series of the shortest interval
\* takes the price.
updateOHLCCandlesShortestOnly(storage, mintAddress, price, timestamp) ==
    [storage EXCEPT ![mintAddress]["1s"] =
        updateSeries(storage[mintAddress]["1s"], TIME_INTERVALS["1s"], price, timestamp)]

\* The forEach over the intervals, on the series of the asset.
updateOHLCCandles(storage, mintAddress, price, timestamp) ==
    [storage EXCEPT ![mintAddress] =
        [i \in TimeInterval |->
            updateSeries(storage[mintAddress][i], TIME_INTERVALS[i], price, timestamp)]]

\* new Map(): no asset has candles.
EmptyStorage == [a \in {"WBTC", "PAXG"} |-> [i \in TimeInterval |-> <<>>]]

(***************************************************************************)
(* PriceService.cache and PriceService.fetchWithCache                      *)
(***************************************************************************)
\* parseInt(process.env.CACHE_TTL || '5000')
cacheTTL == Seconds(5000)

MAX_CACHE_SIZE == 100

\* parseInt(process.env.PRICE_POLL_INTERVAL || '5000')
pollInterval == Seconds(5000)

\* The index of the entry of key in the cache, 0 when there is none.
cacheIndex(c, key) ==
    IF \E k \in 1..Len(c) : c[k].key = key
    THEN CHOOSE k \in 1..Len(c) : c[k].key = key
    ELSE 0

\* A mutation of cacheFresh: an entry as old as the window still counts.
cacheFreshInclusive(c, key, t) ==
    /\ cacheIndex(c, key) # 0
    /\ t - c[cacheIndex(c, key)].timestamp <= cacheTTL

\* cached && Date.now() - cached.timestamp < this.cacheTTL
cacheFresh(c, key, t) ==
    /\ cacheIndex(c, key) # 0
    /\ t - c[cacheIndex(c, key)].timestamp < cacheTTL

\* cached.data
cacheData(c, key) == c[cacheIndex(c, key)].data

\* A mutation of cacheStore: the eviction starts one entry too late.
cacheStoreLateEviction(c, key, data, t) ==
    LET entry == [key |-> key, data |-> data, timestamp |-> t]
        k == cacheIndex(c, key)
        set == IF k = 0 THEN Append(c, entry) ELSE [c EXCEPT ![k] = entry]
    IN  IF Len(set) > MAX_CACHE_SIZE + 1 THEN Tail(set) ELSE set

\* this.cache.set(key, {data, timestamp: Date.now()}) and the eviction of
\* the first key of the map when the map has grown over MAX_CACHE_SIZE.
\* Map.set keeps the place of a key that is already in the map.  Every key
\* is 'price_...' or 'token_info_...', never the empty string that
\* "if (firstKey)" would leave in the map.
cacheStore(c, key, data, t) ==
    LET entry == [key |-> key, data |-> data, timestamp |-> t]
        k == cacheIndex(c, key)
        set == IF k = 0 THEN Append(c, entry) ELSE [c EXCEPT ![k] = entry]
    IN  IF Len(set) > MAX_CACHE_SIZE THEN Tail(set) ELSE set

(***************************************************************************)
(* PriceService.getAssetPrice: the fetcher                                 *)
(***************************************************************************)
\* A member of data[asset.mintAddress] in an answer of the feed, a JSON
\* value: none (no entry for the asset, or an entry without the member), a
\* number, a string, or an object, which has toString among its own members
\* (with a value that is no function) or has not.
undefinedPrice == [type |-> "undefined", number |-> 0, text |-> ""]
numberPrice(n) == [type |-> "number", number |-> n, text |-> ""]
stringPrice(s) == [type |-> "string", number |-> 0, text |-> s]
objectPrice(members) == [type |-> "object", number |-> 0, text |-> members]

UsdPrices ==
    {undefinedPrice}
      \cup {numberPrice(n) : n \in (0 - 1)..MaxPrice}
      \cup {stringPrice(s) : s \in {"", "0", "abc"}}

\* priceInfo.priceChange24h of an answer
PriceChanges == {undefinedPrice, numberPrice(1), objectPrice("toString")}

\* !priceInfo || !priceInfo.usdPrice: undefined, the number 0 and the empty
\* string are falsy; every other number and string and every object is
\* truthy.
falsy(usdPrice) ==
    \/ usdPrice.type = "undefined"
    \/ usdPrice.type = "number" /\ usdPrice.number = 0
    \/ usdPrice.type = "string" /\ usdPrice.text = ""

\* value.toString() throws a TypeError when toString is a member of the
\* object that is no function.
toStringThrows(value) == value.type = "object" /\ value.text = "toString"

\* parseFloat(value.toString()): the number itself, the number that a
\* string starts with, NaN for a string that starts with none, as
\* '[object Object]'.
parseFloat(usdPrice) ==
    IF usdPrice.type = "number" THEN usdPrice.number
    ELSE IF usdPrice.type = "string" /\ usdPrice.text = "0" THEN 0
    ELSE NaN

\* What the upstream feed can answer to one request: it is not reached
\* (fetch throws), it answers with a status that is not OK, or it answers
\* OK with a body.  The body carries a priceChange24h with one of the
\* prices only.
Answers ==
    {[status |-> "unreachable", usdPrice |-> undefinedPrice,
      priceChange24h |-> undefinedPrice],
     [status |-> "http_error", usdPrice |-> undefinedPrice,
      priceChange24h |-> undefinedPrice]}
      \cup {[status |-> "http_ok", usdPrice |-> u, priceChange24h |-> undefinedPrice] :
              u \in UsdPrices}
      \cup {[status |-> "http_ok", usdPrice |-> numberPrice(1), priceChange24h |-> c] :
              c \in PriceChanges}

NoData ==
    [asset |-> "none", price |-> 0, priceChange24h |-> undefined, timestamp |-> 0]

\* calculatePriceChange24h(mintAddress, currentPrice): undefined with fewer
\* than 24 hour candles, and otherwise
\* ((currentPrice - price24hAgo) / price24hAgo) * 100.
calculatePriceChange24h(storage, mintAddress, currentPrice) ==
    LET hourCandles == storage[mintAddress]["1h"]
    IN  IF Len(hourCandles) < 24
        THEN undefined
        ELSE LET price24hAgo == Number(hourCandles[Max(0, Len(hourCandles) - 24) + 1].open)
             IN  times(divide(minus(Number(currentPrice), price24hAgo), price24hAgo),
                       fromInt(100))

\* The fetcher throws before it has written a candle.
threw(storage) == [ok |-> FALSE, wrote |-> FALSE, data |-> NoData, storage |-> storage]

\* A mutation of fetcher: the change of the feed is read before the candle
\* is written.
fetcherReadsChangeFirst(asset, ans, t, storage) ==
    IF ans.status # "http_ok" THEN threw(storage)
    ELSE IF falsy(ans.usdPrice) THEN threw(storage)
    ELSE IF toStringThrows(ans.usdPrice) THEN threw(storage)
    ELSE IF ~falsy(ans.priceChange24h) /\ toStringThrows(ans.priceChange24h)
    THEN threw(storage)
    ELSE LET price == parseFloat(ans.usdPrice)
             written == updateOHLCCandles(storage, asset, price, t)
         IN  [ok |-> TRUE, wrote |-> TRUE,
              data |-> [asset |-> asset, price |-> price,
                        priceChange24h |->
                            IF ~falsy(ans.priceChange24h)
                            THEN Number(parseFloat(ans.priceChange24h))
                            ELSE calculatePriceChange24h(written, asset, price),
                        timestamp |-> t],
              storage |-> written]

\* The fetcher of getAssetPrice, from the answer of the feed on
\* (part_013:279-317).  It throws when the feed is not reached, when the
\* status is not OK, when usdPrice is falsy and when its toString throws.
\* Otherwise it hands the price to updateOHLCCandles, and then throws when
\* the toString of a truthy priceChange24h throws, or returns the PriceData
\* {asset, price, priceChange24h, timestamp: Date.now()}.  storage is the
\* candle storage when it is over.
fetcher(asset, ans, t, storage) ==
    IF ans.status # "http_ok" THEN threw(storage)
    ELSE IF falsy(ans.usdPrice) THEN threw(storage)
    ELSE IF toStringThrows(ans.usdPrice) THEN threw(storage)
    ELSE LET price == parseFloat(ans.usdPrice)
             written == updateOHLCCandles(storage, asset, price, t)
         IN  IF ~falsy(ans.priceChange24h) /\ toStringThrows(ans.priceChange24h)
             THEN [ok |-> FALSE, wrote |-> TRUE, data |-> NoData, storage |-> written]
             ELSE [ok |-> TRUE, wrote |-> TRUE,
                   data |-> [asset |-> asset, price |-> price,
                             priceChange24h |->
                                 IF ~falsy(ans.priceChange24h)
                                 THEN Number(parseFloat(ans.priceChange24h))
                                 ELSE calculatePriceChange24h(written, asset, price),
                             timestamp |-> t],
                   storage |-> written]

NoFetch == [data |-> NoData, at |-> 0]

(***************************************************************************)
(* PriceService.getOHLCData                                                *)
(***************************************************************************)
\* A mutation of slice: the first count candles.
sliceFirst(candles, count) ==
    SubSeq(candles, 1, Min(count, Len(candles)))

\* candles.slice(-count): from index max(length - count, 0) on when -count
\* is negative, from index min(-count, length) on otherwise.
slice(candles, count) ==
    LET start == IF 0 - count < 0
                 THEN Max(Len(candles) - count, 0)
                 ELSE Min(0 - count, Len(candles))
    IN  SubSeq(candles, start + 1, Len(candles))

\* The ids a client passes: the symbols of the registry and an unknown one.
AssetIds == SOLANA_ASSETS \cup {"DOGE"}

\* The intervals a client asks for.
RequestedIntervals == {"1s", "1h"}

\* A call of the client: its arguments, where it waits (pc), whether its
\* getAssetPrice was served from the cache or sent a request upstream, and
\* the data that its getAssetPrice is fulfilled with.
NoReq ==
    [op |-> "none", asset |-> "none", interval |-> "1s", count |-> 1,
     pc |-> "none", served |-> "none", data |-> NoData]
NoResp == [req |-> NoReq, status |-> "none", data |-> NoData, candles |-> <<>>]

\* The part of getOHLCData after the await of getAssetPrice.
readCandles(storage, req) ==
    IF \A i \in TimeInterval : storage[req.asset][i] = <<>>
    THEN [req |-> req, status |-> "no_data", data |-> NoData, candles |-> <<>>]
    ELSE IF Len(storage[req.asset][req.interval]) = 0
    THEN [req |-> req, status |-> "no_data", data |-> NoData, candles |-> <<>>]
    ELSE [req |-> req, status |-> "ok", data |-> NoData,
          candles |-> slice(storage[req.asset][req.interval], req.count)]

\* What a call returns once its getAssetPrice is fulfilled with data.
fulfilled(req, data, storage) ==
    IF req.op = "getAssetPrice"
    THEN [req |-> req, status |-> "ok", data |-> data, candles |-> <<>>]
    ELSE readCandles(storage, req)

\* What a call throws once its getAssetPrice is rejected.
rejected(req) ==
    [req |-> req, status |-> "upstream_error", data |-> NoData, candles |-> <<>>]

(***************************************************************************)
(* The service: the poller, the upstream feed and one client.              *)
(***************************************************************************)
InitService ==
    /\ now = Epoch
    /\ nextPoll = Epoch + pollInterval
    /\ cache = <<>>
    /\ pollInflight = [a \in SOLANA_ASSETS |-> 0]
    /\ client = NoReq
    /\ stores = <<>>
    /\ fetching = EmptyBag
    /\ calls = 0
    /\ resp = NoResp
    /\ lastFetch = [a \in SOLANA_ASSETS |-> NoFetch]

\* server.ts: const transports = {} and no request handled yet.
NoExchange ==
    [sessionId |-> "", shape |-> "none", method |-> "none", toolName |-> "none",
     header |-> "none", outcome |-> "none", status |-> 0, code |-> 0,
     message |-> "none",
     payment |-> [maxAmountRequired |-> "none", description |-> "none",
                  resource |-> <<>>],
     pricing |-> [amount |-> "none", formatted |-> "none", description |-> "none"],
     settled |-> "none", handled |-> "none"]

InitServer == transports = {} /\ exchange = NoExchange /\ handlers = EmptyBag

\* The RSI service has no state of its own: no call has been made.
NoCall == [state |-> "none"]

InitRSIService ==
    /\ rsiCall = NoCall
    /\ mtfCall = NoCall
    /\ portfolioCall = NoCall
    /\ signalCall = NoCall
    /\ analysisCall = NoCall
    /\ tasks = <<>>
    /\ resumes = <<>>

\* new PriceService() in a process with MAX_CANDLES set: no candles yet.
InitPriceService ==
    /\ maxCandlesPerInterval = MAX_CANDLES
    /\ ohlcStorage = EmptyStorage
    /\ observed = [a \in SOLANA_ASSETS |-> <<>>]
    /\ InitService

Init ==
    /\ InitPriceService
    /\ InitServer
    /\ InitRSIService

\* No call of the client returns in this step.
Quiet == resp' = NoResp

\* A second passes.  The timer of the poller fires when it is due.
Tick ==
    /\ now < Epoch + MaxClock
    /\ now < nextPoll
    /\ now' = now + 1
    /\ Quiet
    /\ UNCHANGED <<ohlcStorage, observed, nextPoll, cache, pollInflight, client,
                   stores, fetching, calls, lastFetch>>
    /\ UNCHANGED extVars
    /\ UNCHANGED taskVars

\* Promise.allSettled of getPortfolioSignals has every promise settled and
\* the call has not resumed yet.
allSettled ==
    /\ portfolioCall.state = "called"
    /\ \A i \in 1..Len(tasks) : tasks[i].settled.status # "pending"

\* A callback of a settled promise is due: the event loop runs it before
\* any timer, any answer of the feed and any request.
callbackDue ==
    stores # <<>> \/ client.pc = "fulfilled" \/ resumes # <<>> \/ allSettled

\* The callback of setInterval: getCurrentPrices() calls getAssetPrice for
\* every asset of the registry; each call is served from the cache or sends
\* a request upstream.
PollerFire ==
    /\ now >= nextPoll
    /\ ~callbackDue
    /\ \A a \in SOLANA_ASSETS :
          cacheFresh(cache, a, now) \/ pollInflight[a] < MaxInflight
    /\ nextPoll' = nextPoll + pollInterval
    /\ pollInflight' = [a \in SOLANA_ASSETS |->
                          IF cacheFresh(cache, a, now)
                          THEN pollInflight[a]
                          ELSE pollInflight[a] + 1]
    /\ Quiet
    /\ UNCHANGED <<ohlcStorage, observed, now, cache, client, stores, fetching,
                   calls, lastFetch>>
    /\ UNCHANGED extVars
    /\ UNCHANGED taskVars

\* The fetcher of getAssetPrice resumes with the answer of the feed
\* (part_013:279-317): it writes the candle unless it throws before, and
\* when it returns the data, the then-callback of fetchWithCache becomes
\* due, after those that are due already.  task is the task of the RSI
\* service that waits for the data, 0 for every other caller.
fetched(a, ans, by, task) ==
    LET r == fetcher(a, ans, now, ohlcStorage)
    IN  /\ ohlcStorage' = r.storage
        /\ stores' = IF r.ok
                     THEN Append(stores, [asset |-> a, data |-> r.data, by |-> by,
                                          task |-> task])
                     ELSE stores

\* The feed answers a request of the poller; getCurrentPrices drops a
\* rejection.
PollerFetched(a, ans) ==
    /\ pollInflight[a] > 0
    /\ ~callbackDue
    /\ pollInflight' = [pollInflight EXCEPT ![a] = @ - 1]
    /\ fetched(a, ans, "poller", 0)
    /\ Quiet
    /\ UNCHANGED <<observed, now, nextPoll, cache, client, fetching, calls,
                   lastFetch>>
    /\ UNCHANGED extVars
    /\ UNCHANGED taskVars

\* A tool handler calls getAssetPrice (as getCurrentPrices does for each
\* asset) or getOHLCData, which looks the asset up and calls getAssetPrice.
\* fetchWithCache tests the cache at the call (part_013:226-229): a fresh
\* entry fulfils the call with its data, otherwise the fetcher sends a
\* request upstream.  The caller resumes in a later callback.
ClientCall(op, id, interval, count) ==
    /\ client = NoReq
    /\ ~callbackDue
    /\ calls < MaxCalls
    /\ calls' = calls + 1
    /\ LET req == [NoReq EXCEPT !.op = op, !.asset = id, !.interval = interval,
                                !.count = count]
       IN  IF id \notin SOLANA_ASSETS
           THEN /\ client' = NoReq
                /\ resp' = [req |-> req, status |-> "not_found", data |-> NoData,
                            candles |-> <<>>]
           ELSE IF cacheFresh(cache, id, now)
           THEN /\ client' = [req EXCEPT !.pc = "fulfilled", !.served = "cache",
                                         !.data = cacheData(cache, id)]
                /\ resp' = NoResp
           ELSE /\ client' = [req EXCEPT !.pc = "fetching", !.served = "upstream"]
                /\ resp' = NoResp
    /\ UNCHANGED <<ohlcStorage, observed, now, nextPoll, cache, pollInflight,
                   stores, fetching, lastFetch>>
    /\ UNCHANGED extVars
    /\ UNCHANGED taskVars

\* The feed answers the request of the client.  A rejection of the fetcher
\* passes the then-callback by and the call of the client throws.
ClientFetched(ans) ==
    /\ client.pc = "fetching"
    /\ ~callbackDue
    /\ fetched(client.asset, ans, "client", 0)
    /\ IF fetcher(client.asset, ans, now, ohlcStorage).ok
       THEN /\ client' = [client EXCEPT !.pc = "fetched"]
            /\ resp' = NoResp
       ELSE /\ client' = NoReq
            /\ resp' = rejected([client EXCEPT !.pc = "none"])
    /\ UNCHANGED <<observed, now, nextPoll, cache, pollInflight, fetching, calls,
                   lastFetch>>
    /\ UNCHANGED extVars
    /\ UNCHANGED taskVars

\* The then-callback of fetchWithCache that is due first runs
\* (part_013:231-241): it stores the data with a reading of the clock of
\* its own, evicts, and fulfils the getAssetPrice it belongs to, whose
\* caller resumes next.
ThenCallback ==
    /\ stores # <<>>
    /\ LET head == Head(stores)
       IN  /\ cache' = cacheStore(cache, head.asset, head.data, now)
           /\ lastFetch' = [lastFetch EXCEPT
                              ![head.asset] = [data |-> head.data, at |-> now]]
           /\ client' = IF head.by = "client"
                        THEN [client EXCEPT !.pc = "fulfilled", !.data = head.data]
                        ELSE client
           /\ tasks' = IF head.by = "task"
                       THEN [tasks EXCEPT ![head.task].pc = "fulfilled"]
                       ELSE tasks
           /\ resumes' = IF head.by = "task" THEN Append(resumes, head.task)
                         ELSE resumes
    /\ stores' = Tail(stores)
    /\ Quiet
    /\ UNCHANGED <<ohlcStorage, observed, now, nextPoll, pollInflight, fetching,
                   calls>>
    /\ UNCHANGED extVars

\* The caller of getAssetPrice resumes after its await: getAssetPrice
\* returns the data, getOHLCData reads the series (part_013:428-441).
ClientResumes ==
    /\ client.pc = "fulfilled"
    /\ resp' = fulfilled([client EXCEPT !.pc = "none"], client.data, ohlcStorage)
    /\ client' = NoReq
    /\ UNCHANGED <<ohlcStorage, observed, now, nextPoll, cache, pollInflight,
                   stores, fetching, calls, lastFetch>>
    /\ UNCHANGED extVars
    /\ UNCHANGED taskVars

Next ==
    \/ Tick
    \/ PollerFire
    \/ \E a \in SOLANA_ASSETS, ans \in Answers : PollerFetched(a, ans)
    \/ \E id \in SOLANA_ASSETS : ClientCall("getAssetPrice", id, "1s", 1)
    \/ \E id \in AssetIds, i \in RequestedIntervals, count \in 1..MaxCount :
          ClientCall("getOHLCData", id, i, count)
    \/ \E ans \in Answers : ClientFetched(ans)
    \/ ThenCallback
    \/ ClientResumes

Spec == Init /\ [][Next]_vars

(***************************************************************************)
(* The candle aggregator alone: updateOHLCCandles applied to any sequence  *)
(* of observations.  The timestamp is a reading of Date.now(), wall-clock  *)
(* time, which the host may set back between two readings.                 *)
(***************************************************************************)
InitIngest == Init

TotalObserved ==
    LET RECURSIVE Sum(_)
        Sum(S) == IF S = {} THEN 0
                  ELSE LET a == CHOOSE x \in S : TRUE
                       IN Len(observed[a]) + Sum(S \ {a})
    IN Sum(SOLANA_ASSETS)

Ingest(a, price, timestamp) ==
    /\ TotalObserved < MaxObserved
    /\ ohlcStorage' = updateOHLCCandles(ohlcStorage, a, price, timestamp)
    /\ observed' = [observed EXCEPT
                      ![a] = Append(@, [price |-> price, timestamp |-> timestamp])]
    /\ UNCHANGED svcVars
    /\ UNCHANGED extVars
    /\ UNCHANGED taskVars

NextIngest ==
    \E a \in SOLANA_ASSETS, price \in Prices, timestamp \in Timestamps :
        Ingest(a, price, timestamp)

SpecIngest == InitIngest /\ [][NextIngest]_vars

(***************************************************************************)
(* The quote cache alone: fetchWithCache called with any number of keys.   *)
(* getTokenInfo takes any mint address, so the keys are not bounded by the *)
(* registry.  Key k of the model is the k-th distinct key that was asked   *)
(* for; the callers ask for a key never seen before, for the first key of  *)
(* the map or for its last key.  The window of the cache passes once,      *)
(* while the map holds at most MaxEarly keys or when it is full.           *)
(***************************************************************************)
MaxKeys == 102         \* distinct keys asked for per behaviour
MaxFetching == 2       \* calls whose fetcher has not answered yet
MaxEarly == 1          \* keys in a map that is not full when the window passes

InitCache == Init

\* The keys asked for so far that are in the map or on their way to it.
knownKeys == {cache[k].key : k \in 1..Len(cache)} \cup BagToSet(fetching)


newKey ==
    IF knownKeys = {} THEN 1
    ELSE (CHOOSE k \in knownKeys : \A j \in knownKeys : j <= k) + 1

\* The keys of the map.
cachedKeys == {cache[k].key : k \in 1..Len(cache)}

\* A key is asked for while every key on its way is in the map or is that
\* key: the keys that leave the map are replaced by keys never seen before.
RequestedKeys ==
    {key \in {k \in {newKey} : k <= MaxKeys}
                \cup (IF cache = <<>> THEN {}
                      ELSE {cache[1].key, cache[Len(cache)].key})
                \cup BagToSet(fetching) :
        BagToSet(fetching) \subseteq cachedKeys \cup {key}}

\* fetchWithCache(key, fetcher) up to its return (part_013:226-231): a
\* fresh entry is returned, otherwise the fetcher is called and the
\* then-callback waits for it.
fetchWithCache(key) ==
    /\ fetching' = IF cacheFresh(cache, key, now)
                   THEN fetching
                   ELSE fetching (+) SetToBag({key})
    /\ BagCardinality(fetching') <= MaxFetching
    /\ UNCHANGED <<ohlcStorage, observed, now, nextPoll, cache, pollInflight,
                   client, stores, calls, resp, lastFetch>>
    /\ UNCHANGED extVars
    /\ UNCHANGED taskVars

\* The fetcher of a call for key fulfils (ok) or rejects.  On fulfilment
\* the then-callback stores the result at the time it runs and evicts
\* (part_013:231-241); a rejection passes it by.
fetcherSettles(key, ok) ==
    /\ BagIn(key, fetching)
    /\ fetching' = fetching (-) SetToBag({key})
    /\ cache' = IF ok
                THEN cacheStore(cache, key,
                                [asset |-> key, price |-> 1, priceChange24h |-> undefined,
                                 timestamp |-> now], now)
                ELSE cache
    /\ UNCHANGED <<ohlcStorage, observed, now, nextPoll, pollInflight, client,
                   stores, calls, resp, lastFetch>>
    /\ UNCHANGED extVars
    /\ UNCHANGED taskVars

\* The memoization window passes: every entry stored so far is stale.
WindowPasses ==
    /\ now = Epoch
    /\ Len(cache) <= MaxEarly \/ Len(cache) = MAX_CACHE_SIZE
    /\ now' = now + cacheTTL
    /\ UNCHANGED <<ohlcStorage, observed, nextPoll, cache, pollInflight, client,
                   stores, fetching, calls, resp, lastFetch>>
    /\ UNCHANGED extVars
    /\ UNCHANGED taskVars

NextCache ==
    \/ \E key \in RequestedKeys : fetchWithCache(key)
    \/ \E key \in BagToSet(fetching), ok \in BOOLEAN : fetcherSettles(key, ok)
    \/ WindowPasses

SpecCache == InitCache /\ [][NextCache]_vars

(***************************************************************************)
(* server.ts: handleMCPRequest behind express.json(), with the payment     *)
(* check of utils/x402-payment-handler.ts.                                 *)
(*                                                                         *)
(* A request carries the header mcp-session-id ("" when absent), the       *)
(* header X-PAYMENT and a JSON body.  express.json() hands over any JSON   *)
(* object or array: the body is one JSON-RPC message (shape "message") or  *)
(* an array of messages (shape "batch", here with one message).  method    *)
(* and toolName are those of the message.  StreamableHTTPServerTransport   *)
(* handleRequest passes every message of the body it is given to the MCP   *)
(* server, which runs the tool that a tools/call message names.            *)
(*                                                                         *)
(* handleMCPRequest is an async function: it runs up to an await, and the  *)
(* rest runs when the awaited promise settles.  Other requests are taken   *)
(* in and transports close while a call waits.  handlers holds the calls   *)
(* that wait, each with the await it waits at:                             *)
(*   "verifying"   await verifyToolPayment(...)        (server.ts:89)      *)
(*   "settling"    await settleToolPayment(...)        (server.ts:126)     *)
(*   "connecting"  await server.connect(transport)     (server.ts:162)     *)
(* exchange is the request answered by the step that led to the state and  *)
(* its answer; it is NoExchange after a step that answers no request.      *)
(***************************************************************************)
MaxSessions == 2       \* sessions that can be open at once
MaxHandlers == 1       \* calls of handleMCPRequest that can wait at once

\* randomUUID(): the ids that sessions are given.
SessionIds == {ToString(i) : i \in 1..MaxSessions}

\* Names that every plain object answers with a member it inherits from
\* Object.prototype (a function): transports and TOOL_PRICING are plain
\* objects that the program reads with obj[name].
ObjectPrototype == {"constructor", "toString"}

\* TOOL_PRICING, for two of the eleven tools.
TOOL_PRICING ==
    [ t \in {"get-current-prices", "get-portfolio-signals"} |->
        IF t = "get-current-prices"
        THEN [amount |-> "10000", description |-> "Real-time asset prices"]
        ELSE [amount |-> "100000", description |-> "Portfolio-wide trading signals"] ]

\* The value of TOOL_PRICING[toolName]: an entry of the table, an inherited
\* member (truthy, with no amount and no description), or undefined.
toolPricing(toolName) ==
    IF toolName \in DOMAIN TOOL_PRICING
    THEN [truthy |-> TRUE, amount |-> TOOL_PRICING[toolName].amount,
          description |-> TOOL_PRICING[toolName].description]
    ELSE [truthy |-> toolName \in ObjectPrototype, amount |-> "undefined",
          description |-> "undefined"]

\* The value of transports[sessionId]: the transport of an open session, an
\* inherited member (truthy, and no transport), or undefined.
transportOf(sessionId) ==
    IF sessionId \in transports THEN "transport"
    ELSE IF sessionId \in ObjectPrototype THEN "member"
    ELSE "undefined"

\* params.name of a message: a priced tool, a name without pricing, the name
\* of an inherited member, or no name at all ("").
ToolNames == DOMAIN TOOL_PRICING \cup {"no-such-tool", "toString", ""}

Methods == {"initialize", "tools/call", "tools/list"}

\* The header X-PAYMENT: absent or present.
PaymentHeaders == {"none", "payment"}

\* The header mcp-session-id: absent, an id that sessions are given, or the
\* name of an inherited member.
SessionHeaders == {""} \cup SessionIds \cup {"constructor"}

\* A message names a tool only as a tools/call.
Requests ==
    { req \in [sessionId : SessionHeaders, shape : {"message", "batch"},
               method : Methods, toolName : ToolNames, header : PaymentHeaders] :
        req.method # "tools/call" => req.toolName = "" }

\* What the package x402-solana does with the call: its
\* createPaymentRequirements or its extractPayment throws (both end in the
\* catch of verifyToolPayment), or they return and the facilitator
\* rejects the payment (handler.verifyPayment answers false or throws) or
\* accepts it.
Outcomes == {"throws", "rejects", "accepts"}

NoRequirements ==
    [maxAmountRequired |-> "none", description |-> "none", resource |-> <<>>]
NoPricing == [amount |-> "none", formatted |-> "none", description |-> "none"]

\* `mcp://tools/${toolName}`
resourceUrl(toolName) == <<"mcp://tools/", toolName>>

\* `$${(parseInt(pricing.amount) / 1_000_000).toFixed(3)} USDC`
formatted(amount) ==
    IF amount = "10000" THEN "$0.010 USDC"
    ELSE IF amount = "100000" THEN "$0.100 USDC"
    ELSE "$NaN USDC"

\* x402Manager.createPaymentRequirements(toolName, resourceUrl): throws for a
\* tool whose pricing is falsy; otherwise what the package returns for the
\* amount and the description it is given, or the exception of the package.
createPaymentRequirements(toolName, resource, outcome) ==
    IF ~toolPricing(toolName).truthy
    THEN [threw |-> TRUE, message |-> "No pricing configured for tool",
          value |-> NoRequirements]
    ELSE IF outcome = "throws"
    THEN [threw |-> TRUE, message |-> "error of the package",
          value |-> NoRequirements]
    ELSE [threw |-> FALSE, message |-> "none",
          value |-> [maxAmountRequired |-> toolPricing(toolName).amount,
                     description |-> toolPricing(toolName).description,
                     resource |-> resource]]

\* x402Manager.verifyPayment: the verdict of the facilitator on the header
\* it is given; an exception counts as false.
verifyPayment(paymentHeader, outcome) == outcome = "accepts"

\* verifyToolPayment(toolName, headers, resourceUrl).  When
\* createPaymentRequirements throws, the catch answers with the message of
\* the exception and without requirements.
verifyToolPayment(toolName, header, resource, outcome) ==
    LET requirements == createPaymentRequirements(toolName, resource, outcome)
    IN  IF requirements.threw
        THEN [verified |-> FALSE, error |-> requirements.message,
              requirements |-> NoRequirements, paymentHeader |-> "none"]
        ELSE IF header = "none"
        THEN [verified |-> FALSE, error |-> "Payment Required",
              requirements |-> requirements.value, paymentHeader |-> "none"]
        ELSE IF ~verifyPayment(header, outcome)
        THEN [verified |-> FALSE, error |-> "Payment verification failed",
              requirements |-> requirements.value, paymentHeader |-> "none"]
        ELSE [verified |-> TRUE, error |-> "none",
              requirements |-> requirements.value, paymentHeader |-> header]

\* req.body?.method: an array has no property of that name.
bodyMethod(req) == IF req.shape = "message" THEN req.method ELSE "undefined"

\* isInitializeRequest(req.body)
isInitializeRequest(req) == req.shape = "message" /\ req.method = "initialize"

\* sessionIdGenerator: an id that no open session has.
FreshSessionIds == SessionIds \ transports

\* A call of handleMCPRequest that waits, and one that has just been made.
waiting(req, pc, outcome) == [req |-> req, pc |-> pc, outcome |-> outcome]

\* The calls that wait, without h.
others(h) == handlers (-) SetToBag({h})

\* The request of a call and what is known of its answer so far.
seen(req, outcome) ==
    [sessionId |-> req.sessionId, shape |-> req.shape, method |-> req.method,
     toolName |-> req.toolName, header |-> req.header, outcome |-> outcome,
     status |-> 0, code |-> 0, message |-> "none", payment |-> NoRequirements,
     pricing |-> NoPricing, settled |-> "none", handled |-> "none"]

\* handleMCPRequest from the session lookup on (server.ts:138-195), run
\* without an await up to the call of transport.handleRequest, the await of
\* server.connect or the answer 400.  A truthy transports[sessionId] that is
\* no transport has no handleRequest: the call throws and the catch answers
\* 500.
lookupSession(h, settlement) ==
    LET req == h.req
        reply == [seen(req, h.outcome) EXCEPT !.settled = settlement]
    IN  IF req.sessionId # "" /\ transportOf(req.sessionId) = "transport"
        THEN /\ exchange' = [reply EXCEPT !.status = 200, !.handled = "transport"]
             /\ handlers' = others(h)
             /\ UNCHANGED transports
        ELSE IF req.sessionId # "" /\ transportOf(req.sessionId) = "member"
        THEN /\ exchange' = [reply EXCEPT !.status = 500, !.code = 0 - 32603,
                                          !.message = "Internal server error"]
             /\ handlers' = others(h)
             /\ UNCHANGED transports
        ELSE IF req.sessionId = "" /\ isInitializeRequest(req)
        THEN /\ handlers' = others(h) (+) SetToBag({[h EXCEPT !.pc = "connecting"]})
             /\ exchange' = NoExchange
             /\ UNCHANGED transports
        ELSE /\ exchange' = [reply EXCEPT !.status = 400, !.code = 0 - 32000,
                                          !.message = "Bad Request"]
             /\ handlers' = others(h)
             /\ UNCHANGED transports

\* handleMCPRequest(req, res) up to its first await or its answer
\* (server.ts:72-93): a tools/call of a named tool waits for
\* verifyToolPayment, every other request goes to the session lookup.
handleMCPRequest(req) ==
    LET isToolCall == bodyMethod(req) = "tools/call"
        toolName == IF isToolCall THEN req.toolName ELSE ""
    IN  IF isToolCall /\ toolName # ""
        THEN /\ handlers' = handlers (+) SetToBag({waiting(req, "verifying", "none")})
             /\ exchange' = NoExchange
             /\ UNCHANGED transports
        ELSE lookupSession(waiting(req, "called", "none"), "none")

\* handleMCPRequest after await verifyToolPayment (server.ts:89-126): the
\* answer 402, or the call of settleToolPayment.
afterVerifyToolPayment(h, outcome) ==
    LET req == h.req
        v == verifyToolPayment(req.toolName, req.header, resourceUrl(req.toolName),
                               outcome)
        pricing == toolPricing(req.toolName)
    IN  IF ~v.verified
        THEN /\ exchange' =
                  [seen(req, outcome) EXCEPT
                      !.status = 402, !.code = 0 - 32001,
                      !.message = v.error,
                      !.payment = v.requirements,
                      !.pricing = IF pricing.truthy
                                  THEN [amount |-> pricing.amount,
                                        formatted |-> formatted(pricing.amount),
                                        description |-> pricing.description]
                                  ELSE NoPricing]
             /\ handlers' = others(h)
             /\ UNCHANGED transports
        ELSE IF v.paymentHeader # "none" /\ v.requirements # NoRequirements
        THEN /\ handlers' = others(h) (+) SetToBag({waiting(req, "settling", outcome)})
             /\ exchange' = NoExchange
             /\ UNCHANGED transports
        ELSE lookupSession([h EXCEPT !.outcome = outcome], "none")

\* A mutation of afterSettleToolPayment: a settlement that throws ends the
\* request with the answer 500.
afterSettleToolPaymentOrFail(h, settles) ==
    IF settles
    THEN lookupSession(h, "settled")
    ELSE /\ exchange' = [seen(h.req, h.outcome) EXCEPT
                            !.status = 500, !.code = 0 - 32603,
                            !.message = "Internal server error",
                            !.settled = "failed"]
         /\ handlers' = others(h)
         /\ UNCHANGED transports

\* handleMCPRequest after await settleToolPayment (server.ts:126-138): the
\* settlement succeeded or threw, and the call goes on either way.
afterSettleToolPayment(h, settles) ==
    lookupSession(h, IF settles THEN "settled" ELSE "failed")

\* handleMCPRequest after await server.connect (server.ts:162-178): the new
\* transport is given the initialize request, gives the session an id and
\* stores itself under it (onsessioninitialized).
afterConnect(h) ==
    /\ \E newSessionId \in FreshSessionIds :
            transports' = transports \cup {newSessionId}
    /\ exchange' = [seen(h.req, h.outcome) EXCEPT !.status = 200,
                                                   !.handled = "transport"]
    /\ handlers' = others(h)

\* The sessions that are open or being opened.
sessionsInUse ==
    Cardinality(transports)
        + Cardinality({h \in BagToSet(handlers) : h.pc = "connecting"})

\* The call of handleMCPRequest for the request reaches an await.
awaits(req) ==
    \/ bodyMethod(req) = "tools/call" /\ req.toolName # ""
    \/ req.sessionId = "" /\ isInitializeRequest(req)

\* A request arrives.  The calls that wait and the sessions are bounded.
HandleRequest(req) ==
    /\ exchange = NoExchange
    /\ awaits(req) => BagCardinality(handlers) < MaxHandlers
    /\ (req.sessionId = "" /\ isInitializeRequest(req)) => sessionsInUse < MaxSessions
    /\ handleMCPRequest(req)
    /\ UNCHANGED <<ohlcStorage, observed, svcVars, rsiCall, mtfCall, portfolioCall>>
    /\ UNCHANGED sigVars

\* verifyToolPayment returns to a call that waits for it.
VerifyReturns(h, outcome) ==
    /\ exchange = NoExchange
    /\ h.pc = "verifying"
    /\ afterVerifyToolPayment(h, outcome)
    /\ UNCHANGED <<ohlcStorage, observed, svcVars, rsiCall, mtfCall, portfolioCall>>
    /\ UNCHANGED sigVars

\* settleToolPayment returns, or throws, to a call that waits for it.
SettleReturns(h, settles) ==
    /\ exchange = NoExchange
    /\ h.pc = "settling"
    /\ afterSettleToolPayment(h, settles)
    /\ UNCHANGED <<ohlcStorage, observed, svcVars, rsiCall, mtfCall, portfolioCall>>
    /\ UNCHANGED sigVars

\* server.connect returns to a call that waits for it.
Connected(h) ==
    /\ exchange = NoExchange
    /\ h.pc = "connecting"
    /\ afterConnect(h)
    /\ UNCHANGED <<ohlcStorage, observed, svcVars, rsiCall, mtfCall, portfolioCall>>
    /\ UNCHANGED sigVars

\* transport.onclose: delete transports[transport.sessionId]
CloseSession(sessionId) ==
    /\ exchange = NoExchange
    /\ sessionId \in transports
    /\ transports' = transports \ {sessionId}
    /\ exchange' = NoExchange
    /\ UNCHANGED <<ohlcStorage, observed, svcVars, handlers, rsiCall, mtfCall,
                   portfolioCall>>
    /\ UNCHANGED sigVars

\* res.status(...).json(...) or transport.handleRequest has written the
\* answer: the call of handleMCPRequest is over.
ResponseSent ==
    /\ exchange # NoExchange
    /\ exchange' = NoExchange
    /\ UNCHANGED <<ohlcStorage, observed, svcVars, transports, handlers, rsiCall,
                   mtfCall, portfolioCall>>
    /\ UNCHANGED sigVars

InitServerAlone == Init

\* An answer is written out in the callback that gives it, before the next
\* callback runs: every other step starts with exchange = NoExchange.
NextServer ==
    \/ \E req \in Requests : HandleRequest(req)
    \/ \E h \in BagToSet(handlers), outcome \in Outcomes : VerifyReturns(h, outcome)
    \/ \E h \in BagToSet(handlers), settles \in BOOLEAN : SettleReturns(h, settles)
    \/ \E h \in BagToSet(handlers) : Connected(h)
    \/ \E sessionId \in SessionIds : CloseSession(sessionId)
    \/ ResponseSent

SpecServer == InitServerAlone /\ [][NextServer]_vars

(***************************************************************************)
(* services/rsi-service.ts: RSIService.calculateRSI                        *)
(*                                                                         *)
(* A candle is known to the RSI service by its close, a whole number or    *)
(* NaN.  The changes, the averages and the RSI values are the doubles that *)
(* the program computes; an RSI value is a number or null.                 *)
(***************************************************************************)
DefaultPeriod == 14    \* calculateRSI(candles, period = 14)

\* candles[i].close - candles[i - 1].close for the step that ends at candle
\* i + 1 (the change behind gains[i - 1] of the program)
change(candles, i) ==
    minus(Number(candles[i + 1].close), Number(candles[i].close))

\* A mutation of gain: the size of the change, whatever its sign.
gainOfAnyChange(c) == IF lessThan(c, zero) THEN negate(c) ELSE c

\* gains.push(change > 0 ? change : 0)
gain(c) == IF greaterThan(c, zero) THEN c ELSE zero

\* losses.push(change < 0 ? Math.abs(change) : 0)
loss(c) == IF lessThan(c, zero) THEN negate(c) ELSE zero

\* gains.slice(i - 1, j).reduce((sum, g) => sum + g, 0) and the same of
\* losses.  The gains and losses of whole closes are whole numbers, whose
\* additions are exact: the sum is taken by halves.
RECURSIVE sumGains(_, _, _)
sumGains(candles, i, j) ==
    IF i > j THEN zero
    ELSE IF i = j THEN gain(change(candles, i))
    ELSE plus(sumGains(candles, i, (i + j) \div 2),
              sumGains(candles, (i + j) \div 2 + 1, j))

RECURSIVE sumLosses(_, _, _)
sumLosses(candles, i, j) ==
    IF i > j THEN zero
    ELSE IF i = j THEN loss(change(candles, i))
    ELSE plus(sumLosses(candles, i, (i + j) \div 2),
              sumLosses(candles, (i + j) \div 2 + 1, j))

\* A mutation of averages: the simple mean of the last period changes.
RECURSIVE averagesRollingMean(_, _, _)
averagesRollingMean(candles, period, n) ==
    LET mean == [g |-> divide(sumGains(candles, n - period + 1, n), fromInt(period)),
                 l |-> divide(sumLosses(candles, n - period + 1, n), fromInt(period))]
    IN  IF n = period THEN <<mean>>
        ELSE Append(averagesRollingMean(candles, period, n - 1), mean)

\* avgGain and avgLoss after period, period + 1, ..., n changes, n >= period:
\* the simple average of the first period changes, then
\* avg = ((avg * (period - 1)) + value) / period for each later change.
RECURSIVE averages(_, _, _)
averages(candles, period, n) ==
    IF n = period
    THEN << [g |-> divide(sumGains(candles, 1, period), fromInt(period)),
             l |-> divide(sumLosses(candles, 1, period), fromInt(period))] >>
    ELSE LET before == averages(candles, period, n - 1)
         IN  Append(before,
                    [g |-> divide(plus(times(before[n - period].g, fromInt(period - 1)),
                                       gain(change(candles, n))),
                                  fromInt(period)),
                     l |-> divide(plus(times(before[n - period].l, fromInt(period - 1)),
                                       loss(change(candles, n))),
                                  fromInt(period))])

\* A mutation of rsiValue: RS as a percentage instead of the index.
rsiValueIsRS(a) ==
    IF a.l = zero THEN fromInt(100) ELSE times(fromInt(100), divide(a.g, a.l))

\* A mutation of rsiValue: no average loss counts as no strength.
rsiValueZeroWithoutLoss(a) ==
    IF a.l = zero THEN zero
    ELSE minus(fromInt(100), divide(fromInt(100), plus(fromInt(1), divide(a.g, a.l))))

\* avgLoss === 0 ? 100 : 100 - (100 / (1 + rs)), with rs = avgGain / avgLoss
rsiValue(a) ==
    IF a.l = zero THEN fromInt(100)
    ELSE minus(fromInt(100), divide(fromInt(100), plus(fromInt(1), divide(a.g, a.l))))

\* s[s.length - 1] of a list that is not empty
last(s) == s[Len(s)]

\* The result for enough candles: null in the first period positions, then
\* the index of each pair a of averages.
rsiValues(candles, period, a) ==
    SubSeq([i \in 1..Len(candles) |->
               IF i <= period THEN null ELSE rsiValue(a[i - period])],
           1, Len(candles))

\* A mutation of calculateRSI: nothing is returned for too few candles.
calculateRSIEmptyWhenShort(candles, period) ==
    IF Len(candles) < period + 1
    THEN <<>>
    ELSE rsiValues(candles, period, averages(candles, period, Len(candles) - 1))

\* A mutation of calculateRSI: too few candles give the neutral value 50.
calculateRSINeutralWhenShort(candles, period) ==
    IF Len(candles) < period + 1
    THEN [i \in 1..Len(candles) |-> fromInt(50)]
    ELSE rsiValues(candles, period, averages(candles, period, Len(candles) - 1))

\* calculateRSI(candles, period) for a period >= 0.  Position i of the
\* result is rsiValues[i - 1] of the program.  With period + 1 candles or
\* more there are at least period changes, so the second early return is
\* never taken.
calculateRSI(candles, period) ==
    IF Len(candles) < period + 1
    THEN [i \in 1..Len(candles) |-> null]
    ELSE IF Len(candles) - 1 < period
    THEN [i \in 1..Len(candles) |-> null]
    ELSE rsiValues(candles, period, averages(candles, period, Len(candles) - 1))

(***************************************************************************)
(* calculateRSI applied once to a candle sequence and a period.  The       *)
(* sequences are all short ones over a few closes and NaN, the close of a  *)
(* candle written for a price that is no number, and rising or falling     *)
(* ones long enough for the default period.                                *)
(***************************************************************************)
MaxCandles == 4        \* length of the sequences with any closes
MaxClose == 3          \* their closes are 1..MaxClose
MaxPeriod == 3         \* the short periods are 1..MaxPeriod
MaxTrend == 16         \* length of the rising and falling sequences
MaxChange == 2         \* their changes are 1..MaxChange

candle(close) == [close |-> close]

AnyCandles ==
    UNION {[1..n -> {candle(c) : c \in 1..MaxClose \cup {NaN}}] : n \in 0..MaxCandles}

\* n candles that rise by a for the first h changes and by b afterwards.
rising(n, a, b, h) ==
    [i \in 1..n |->
        candle(1 + (IF i - 1 <= h THEN (i - 1) * a ELSE h * a + (i - 1 - h) * b))]

\* The same closes in reverse order.
falling(n, a, b, h) ==
    [i \in 1..n |-> rising(n, a, b, h)[n + 1 - i]]

RisingCandles ==
    {rising(n, a, b, h) : n \in 1..MaxTrend, a \in 1..MaxChange,
                          b \in 1..MaxChange, h \in {0, 3, 7, 14}}

FallingCandles ==
    {falling(n, a, b, h) : n \in 1..MaxTrend, a \in 1..MaxChange,
                           b \in 1..MaxChange, h \in {0, 3, 7, 14}}

\* The service calls calculateRSI with the periods 14 and 21; the short
\* periods bring the smoothing into short sequences.
Periods == 1..MaxPeriod \cup {DefaultPeriod}

RsiCalls ==
    [state : {"called"}, candles : AnyCandles, period : Periods,
     rsiValues : {<<>>}, error : {"none"}]
        \cup [state : {"called"}, candles : RisingCandles \cup FallingCandles,
              period : Periods, rsiValues : {<<>>}, error : {"none"}]

InitRSI ==
    /\ InitPriceService
    /\ InitServer
    /\ rsiCall \in RsiCalls
    /\ mtfCall = NoCall
    /\ portfolioCall = NoCall
    /\ signalCall = NoCall
    /\ analysisCall = NoCall
    /\ tasks = <<>>
    /\ resumes = <<>>

\* The call returns; calculateRSI has no throw statement.
CalculateRSI ==
    /\ rsiCall.state = "called"
    /\ rsiCall' = [rsiCall EXCEPT
                     !.state = "returned",
                     !.rsiValues = calculateRSI(rsiCall.candles, rsiCall.period)]
    /\ UNCHANGED <<ohlcStorage, observed, svcVars, srvVars, mtfCall,
                   portfolioCall>>
    /\ UNCHANGED sigVars

NextRSI == CalculateRSI

SpecRSI == InitRSI /\ [][NextRSI]_vars

(***************************************************************************)
(* RSIService: the thresholds per asset category and the detectors of buy  *)
(* signals, exit signals and divergences.  Confidences, price levels and   *)
(* the fractions of stop loss and take profit are doubles.                 *)
(***************************************************************************)
RSI_THRESHOLDS ==
    [t \in {"wrapped-btc", "rwa-stocks", "gold"} |->
        CASE t = "wrapped-btc" ->
               [period |-> 14, oversold |-> 30, overbought |-> 70,
                timeframe |-> "1h", stopLoss |-> decimal(3, 100),
                takeProfit |-> decimal(5, 100)]
          [] t = "rwa-stocks" ->
               [period |-> 14, oversold |-> 35, overbought |-> 65,
                timeframe |-> "5m", stopLoss |-> decimal(25, 1000),
                takeProfit |-> decimal(4, 100)]
          [] t = "gold" ->
               [period |-> 21, oversold |-> 25, overbought |-> 75,
                timeframe |-> "1h", stopLoss |-> decimal(15, 1000),
                takeProfit |-> decimal(3, 100)]]

AssetTypes == DOMAIN RSI_THRESHOLDS

\* x < n and x > n for an RSI value x and a whole number n
below(x, n) == lessThan(x, fromInt(n))
above(x, n) == greaterThan(x, fromInt(n))

\* prices.slice(i - 1, j).reduce((sum, p) => sum + p, 0).  The prices are
\* whole numbers, whose additions are exact, or NaN, which every order of
\* the additions hands on: the sum is taken by halves.
RECURSIVE sumOf(_, _, _)
sumOf(prices, i, j) ==
    IF i > j THEN zero
    ELSE IF i = j THEN Number(prices[i])
    ELSE plus(sumOf(prices, i, (i + j) \div 2), sumOf(prices, (i + j) \div 2 + 1, j))

\* ema[i - 1] of the program for i >= period: the simple average of the
\* first period prices, then (prices[i] - ema) * multiplier + ema with
\* multiplier = 2 / (period + 1).
RECURSIVE emaAt(_, _, _)
emaAt(prices, period, i) ==
    IF i = period
    THEN divide(sumOf(prices, 1, period), fromInt(period))
    ELSE LET e == emaAt(prices, period, i - 1)
             multiplier == divide(fromInt(2), fromInt(period + 1))
         IN  plus(times(minus(Number(prices[i]), e), multiplier), e)

\* A mutation of calculateEMA: with fewer than period prices the average is
\* the mean of all of them.
calculateEMAOfShortSeries(prices, period) ==
    IF Len(prices) < period
    THEN [i \in 1..Len(prices) |->
            divide(sumOf(prices, 1, Len(prices)), fromInt(Len(prices)))]
    ELSE [i \in 1..Len(prices) |->
            IF i < period THEN null ELSE emaAt(prices, period, i)]

\* calculateEMA(prices, period)
calculateEMA(prices, period) ==
    IF Len(prices) < period
    THEN [i \in 1..Len(prices) |-> null]
    ELSE [i \in 1..Len(prices) |->
            IF i < period THEN null ELSE emaAt(prices, period, i)]

EMA_PERIOD == 50       \* calculateEMA(candles.map(c => c.close), 50)

\* const baseScore = 0.5 and confidence += 0.1
baseScore == decimal(5, 10)
strongMoveBonus == decimal(1, 10)

\* candles[len - 1].close with fewer than len candles: candles[len - 1] is
\* undefined and the read of its close throws a TypeError.
typeError == [error |-> "TypeError"]

\* { signal: false, confidence: 0, reason }
noBuySignal(reason) ==
    [error |-> "none", signal |-> FALSE, confidence |-> zero, reason |-> <<reason>>]

\* previousRSI < thresholds.oversold && currentRSI > thresholds.oversold
crossesUp(previousRSI, currentRSI, oversold) ==
    below(previousRSI, oversold) /\ above(currentRSI, oversold)

\* A mutation of wrappedBtcBuy: the close need not have risen.
wrappedBtcBuyWithoutPriceRise(previousRSI, currentRSI, currentClose, previousClose, oversold) ==
    crossesUp(previousRSI, currentRSI, oversold)

\* BTC: RSI(t-1) < 30 AND RSI(t) > 30 AND Close(t) > Close(t-1)
wrappedBtcBuy(previousRSI, currentRSI, currentClose, previousClose, oversold) ==
    /\ crossesUp(previousRSI, currentRSI, oversold)
    /\ greaterThan(Number(currentClose), Number(previousClose))

\* currentClose > previousClose * 1.005
strongMove(currentClose, previousClose) ==
    greaterThan(Number(currentClose),
                times(Number(previousClose), decimal(1005, 1000)))

\* What a branch leaves when its condition fails.
noScore == [confidence |-> zero, reasons |-> <<>>]

\* The branch of wrapped BTC: the base score, and the bonus for a strong
\* move.
wrappedBtcScore(previousRSI, currentRSI, currentClose, previousClose, oversold) ==
    IF wrappedBtcBuy(previousRSI, currentRSI, currentClose, previousClose, oversold)
    THEN IF strongMove(currentClose, previousClose)
         THEN [confidence |-> plus(baseScore, strongMoveBonus),
               reasons |-> <<"RSI oversold reversal", "strong upward price movement">>]
         ELSE [confidence |-> baseScore, reasons |-> <<"RSI oversold reversal">>]
    ELSE noScore

\* currentEMA !== null && currentClose > currentEMA
aboveEMA(currentClose, currentEMA) ==
    currentEMA # null /\ greaterThan(Number(currentClose), currentEMA)

\* The branch of the stocks: Close(t) > EMA50(t), with the EMA of
\* candles.map(c => c.close).
stockScore(previousRSI, currentRSI, candles, len, oversold) ==
    IF /\ crossesUp(previousRSI, currentRSI, oversold)
       /\ aboveEMA(candles[len].close,
                   last(calculateEMA([i \in 1..Len(candles) |-> candles[i].close],
                                     EMA_PERIOD)))
    THEN [confidence |-> baseScore, reasons |-> <<"RSI oversold reversal above EMA50">>]
    ELSE noScore

\* A mutation of hasConsecutiveHigherCloses: one higher close is enough.
hasOneHigherClose(candles, len) ==
    greaterThan(Number(candles[len].close), Number(candles[len - 1].close))

\* len >= 3 && candles[len - 1].close > candles[len - 2].close
\*          && candles[len - 2].close > candles[len - 3].close
hasConsecutiveHigherCloses(candles, len) ==
    /\ len >= 3
    /\ greaterThan(Number(candles[len].close), Number(candles[len - 1].close))
    /\ greaterThan(Number(candles[len - 1].close), Number(candles[len - 2].close))

\* The branch of gold.
goldScore(previousRSI, currentRSI, candles, len, oversold) ==
    IF /\ crossesUp(previousRSI, currentRSI, oversold)
       /\ hasConsecutiveHigherCloses(candles, len)
    THEN [confidence |-> baseScore,
          reasons |-> <<"RSI oversold reversal with consecutive higher closes">>]
    ELSE noScore

\* "Asset-specific buy conditions": len is rsi.length, which also indexes
\* the candles.
branchScore(previousRSI, currentRSI, candles, len, assetType, oversold) ==
    IF assetType = "wrapped-btc"
    THEN wrappedBtcScore(previousRSI, currentRSI, candles[len].close,
                         candles[len - 1].close, oversold)
    ELSE IF assetType = "rwa-stocks"
    THEN stockScore(previousRSI, currentRSI, candles, len, oversold)
    ELSE IF assetType = "gold"
    THEN goldScore(previousRSI, currentRSI, candles, len, oversold)
    ELSE noScore

\* The confidence and the reasons that the branch of the asset type leaves.
buyScore(rsi, candles, assetType) ==
    branchScore(rsi[Len(rsi) - 1], rsi[Len(rsi)], candles, Len(rsi), assetType,
                RSI_THRESHOLDS[assetType].oversold)

\* if (confidence > 0): the signal with Math.min(confidence, 1.0), and
\* otherwise the refusal of the neutral zone.
scored(score) ==
    IF greaterThan(score.confidence, zero)
    THEN [error |-> "none", signal |-> TRUE,
          confidence |-> mathMin(score.confidence, fromInt(1)),
          reason |-> score.reasons]
    ELSE noBuySignal("RSI in neutral zone")

\* detectBuySignal(rsi, candles, assetType), with len = rsi.length.  After
\* the test of len the method reads candles[len - 1].close and
\* candles[len - 2].close, and only then tests the RSI values for null: with
\* fewer candles than RSI values it throws, also when an RSI value is null.
\* Candles beyond len are read by the EMA of the stocks only.  reason is the
\* list that the program joins with ', '; the reason of the neutral zone is
\* given without the RSI value that the program prints in it.
detectBuySignal(rsi, candles, assetType) ==
    IF Len(rsi) < 2
    THEN noBuySignal("Insufficient RSI data")
    ELSE IF Len(candles) < Len(rsi)
    THEN typeError
    ELSE IF rsi[Len(rsi)] = null \/ rsi[Len(rsi) - 1] = null
    THEN noBuySignal("RSI values not yet available")
    ELSE scored(buyScore(rsi, candles, assetType))

\* A mutation of exitReason: the overbought RSI is looked at first.
exitReasonOverboughtFirst(currentPrice, currentRSI, stopLossPrice, takeProfitPrice, overbought) ==
    IF currentRSI # null /\ above(currentRSI, overbought)
    THEN "RSI overbought"
    ELSE IF atMost(currentPrice, stopLossPrice) THEN "Stop loss triggered"
    ELSE IF atLeast(currentPrice, takeProfitPrice) THEN "Take profit target reached"
    ELSE "No exit signal"

\* The three checks of detectExitSignal in their order.
exitReason(currentPrice, currentRSI, stopLossPrice, takeProfitPrice, overbought) ==
    IF atMost(currentPrice, stopLossPrice) THEN "Stop loss triggered"
    ELSE IF atLeast(currentPrice, takeProfitPrice) THEN "Take profit target reached"
    ELSE IF currentRSI # null /\ above(currentRSI, overbought)
    THEN "RSI overbought"
    ELSE "No exit signal"

\* The result for the reason: shouldExit is false when none is found.
exitSignal(reason, stopLossPrice, takeProfitPrice) ==
    [shouldExit |-> reason # "No exit signal", reason |-> reason,
     stopLoss |-> stopLossPrice, takeProfit |-> takeProfitPrice]

exitAt(currentPrice, currentRSI, stopLossPrice, takeProfitPrice, overbought) ==
    exitSignal(exitReason(currentPrice, currentRSI, stopLossPrice, takeProfitPrice,
                          overbought),
               stopLossPrice, takeProfitPrice)

\* stopLossPrice = entryPrice * (1 - thresholds.stopLoss) and
\* takeProfitPrice = entryPrice * (1 + thresholds.takeProfit)
exitWithin(rsi, candles, entryPrice, thresholds) ==
    exitAt(Number(candles[Len(candles)].close),
           IF rsi = <<>> THEN undefined ELSE rsi[Len(rsi)],
           times(Number(entryPrice), minus(fromInt(1), thresholds.stopLoss)),
           times(Number(entryPrice), plus(fromInt(1), thresholds.takeProfit)),
           thresholds.overbought)

\* detectExitSignal(rsi, candles, entryPrice, assetType), for candles that
\* are not empty.  rsi[rsi.length - 1] of an empty rsi is undefined, which
\* is above no threshold.  reason is given without the prices that the
\* program prints in it.
detectExitSignal(rsi, candles, entryPrice, assetType) ==
    exitWithin(rsi, candles, entryPrice, RSI_THRESHOLDS[assetType])

DefaultLookback == 10  \* detectRSIDivergence(rsi, candles, lookback = 10)

\* s.slice(-n) for 1 <= n <= s.length
lastOf(s, n) == SubSeq(s, Len(s) - n + 1, Len(s))

\* r !== null
isNumber(r) == r # null

\* A mutation of localLow: only the candle before is looked at.
localLowOneSided(recentCandles, i) ==
    lessThan(Number(recentCandles[i].low), Number(recentCandles[i - 1].low))

\* recentCandles[i].low below the low of both neighbours (i counts from 1)
localLow(recentCandles, i) ==
    /\ lessThan(Number(recentCandles[i].low), Number(recentCandles[i - 1].low))
    /\ lessThan(Number(recentCandles[i].low), Number(recentCandles[i + 1].low))

\* A mutation of localHigh: only the candle after is looked at.
localHighOneSided(recentCandles, i) ==
    greaterThan(Number(recentCandles[i].high), Number(recentCandles[i + 1].high))

\* recentCandles[i].high above the high of both neighbours
localHigh(recentCandles, i) ==
    /\ greaterThan(Number(recentCandles[i].high), Number(recentCandles[i - 1].high))
    /\ greaterThan(Number(recentCandles[i].high), Number(recentCandles[i + 1].high))

noDivergence == [bullish |-> FALSE, bearish |-> FALSE, strength |-> undefined]

\* The inner positions of the window that are local lows, and those that
\* are local highs, in their order.
localLows(recentCandles, lookback) ==
    LET isLow(i) == localLow(recentCandles, i)
    IN  SelectSeq([k \in 1..(lookback - 2) |-> k + 1], isLow)

localHighs(recentCandles, lookback) ==
    LET isHigh(i) == localHigh(recentCandles, i)
    IN  SelectSeq([k \in 1..(lookback - 2) |-> k + 1], isHigh)

\* Over the last two of the nl local lows the price makes a lower low and
\* the RSI a higher one.
bullishAt(recentRSI, recentCandles, lows, nl) ==
    /\ nl >= 2
    /\ lessThan(Number(recentCandles[lows[nl]].low),
                Number(recentCandles[lows[nl - 1]].low))
    /\ greaterThan(recentRSI[lows[nl]], recentRSI[lows[nl - 1]])

\* Over the last two of the nh local highs the price makes a higher high
\* and the RSI a lower one.
bearishAt(recentRSI, recentCandles, highs, nh) ==
    /\ nh >= 2
    /\ greaterThan(Number(recentCandles[highs[nh]].high),
                   Number(recentCandles[highs[nh - 1]].high))
    /\ lessThan(recentRSI[highs[nh]], recentRSI[highs[nh - 1]])

\* strength is 0.7 or undefined.
divergenceOf(bullish, bearish) ==
    [bullish |-> bullish, bearish |-> bearish,
     strength |-> IF bullish \/ bearish THEN decimal(7, 10) ELSE undefined]

divergenceAt(recentRSI, recentCandles, lows, highs) ==
    divergenceOf(bullishAt(recentRSI, recentCandles, lows, Len(lows)),
                 bearishAt(recentRSI, recentCandles, highs, Len(highs)))

\* recentRSI holds the numbers of the last lookback RSI values.
windowDivergence(recentRSI, recentCandles, lookback) ==
    IF Len(recentRSI) < lookback
    THEN noDivergence
    ELSE divergenceAt(recentRSI, recentCandles, localLows(recentCandles, lookback),
                      localHighs(recentCandles, lookback))

\* detectRSIDivergence(rsi, candles, lookback) for lookback >= 1.  The loop
\* runs over the inner positions of the window.
detectRSIDivergence(rsi, candles, lookback) ==
    IF Len(rsi) < lookback \/ Len(candles) < lookback
    THEN noDivergence
    ELSE windowDivergence(SelectSeq(lastOf(rsi, lookback), isNumber),
                          lastOf(candles, lookback), lookback)

(***************************************************************************)
(* One call of a detector.  detectBuySignal reads the last two RSI values  *)
(* and the closes; its RSI inputs are null up to the last two values, as   *)
(* the output of calculateRSI begins, and the closes 1000, 1004, 1005 and  *)
(* 1010 give a rise of less than, of about and of more than 0.5 percent.   *)
(* The sequences of 50 and 51 candles are flat up to the last close: they  *)
(* have an EMA50.  The method takes any two lists: there are calls with    *)
(* fewer candles than RSI values, on which it throws, and with more.       *)
(* detectExitSignal reads the last RSI value and the last close.           *)
(* detectRSIDivergence gets every window of five candles over a few        *)
(* levels, with highs that follow the lows or mirror them, and trends and  *)
(* zigzags for the default lookback.                                       *)
(***************************************************************************)
MaxSignalLen == 3      \* length of the short inputs of detectBuySignal
MaxLevel == 3          \* the lows of the windows of five are 1..MaxLevel
ShortLookback == 5     \* the smallest lookback of the get-rsi-divergence tool

SignalCloses == {1000, 1004, 1005, 1010}

BuyLevels == {null} \cup {fromInt(v) : v \in {24, 28, 30, 32, 36}}

ExitLevels == {null} \cup {fromInt(v) : v \in {60, 68, 72, 80}}

\* The entry is at 1000: the levels of the three asset types are 970, 975
\* and 985 below it and 1030, 1040 and 1050 above it.
ExitPrices == {900, 970, 980, 1000, 1035, 1045, 1050, 1060}

\* rsi of length n: null, then previous and current
lastTwo(n, previous, current) ==
    [i \in 1..n |-> IF i = n THEN current ELSE IF i = n - 1 THEN previous ELSE null]

\* n candles that close at c1, the last one at c2
flatThen(n, c1, c2) == [i \in 1..n |-> candle(IF i < n THEN c1 ELSE c2)]

NoResult == [returned |-> FALSE]

signalInput(op, rsi, candles, assetType, entryPrice, lookback) ==
    [state |-> "called", op |-> op, rsi |-> rsi, candles |-> candles,
     assetType |-> assetType, entryPrice |-> entryPrice, lookback |-> lookback,
     result |-> NoResult]

\* The calls with n RSI values and n candles: the callers pass the output of
\* calculateRSI on the same candles.
BuyCallsOfLength(n) ==
    {signalInput("detectBuySignal", lastTwo(n, p, c), candles, t, 0, 0) :
        p \in BuyLevels, c \in BuyLevels, t \in AssetTypes,
        candles \in [1..n -> {candle(x) : x \in SignalCloses}]}

BuyCalls == UNION {BuyCallsOfLength(n) : n \in 0..MaxSignalLen}

LongBuyCalls ==
    {signalInput("detectBuySignal", lastTwo(n, p, c), flatThen(n, c1, c2), t, 0, 0) :
        n \in {EMA_PERIOD - 1, EMA_PERIOD, EMA_PERIOD + 1},
        p \in {fromInt(28), fromInt(32)}, c \in {fromInt(32), fromInt(36)},
        c1 \in SignalCloses, c2 \in SignalCloses, t \in AssetTypes}

\* The calls with n RSI values and m candles over three closes; the RSI
\* values are null or cross a level of an asset type.
UnequalCallsOf(n, m) ==
    {signalInput("detectBuySignal", lastTwo(n, p, c), candles, t, 0, 0) :
        p \in {null, fromInt(24), fromInt(28)},
        c \in {null, fromInt(28), fromInt(32), fromInt(36)}, t \in AssetTypes,
        candles \in [1..m -> {candle(x) : x \in {1000, 1004, 1010}}]}

\* Calls with fewer candles than RSI values, none included, and with more:
\* the method is public and takes the two lists as they come.
UnequalBuyCalls ==
    UNION {UNION {UnequalCallsOf(n, m) : m \in (0..(MaxSignalLen + 1)) \ {n}} :
              n \in 0..MaxSignalLen}

\* The same around the length that the EMA50 takes.
UnequalLongBuyCalls ==
    {signalInput("detectBuySignal", lastTwo(n, p, c), flatThen(m, c1, c2), t, 0, 0) :
        n \in {EMA_PERIOD - 1, EMA_PERIOD}, m \in {EMA_PERIOD - 1, EMA_PERIOD},
        p \in {fromInt(28), fromInt(32)}, c \in {fromInt(32), fromInt(36)},
        c1 \in SignalCloses, c2 \in SignalCloses, t \in AssetTypes}

ExitCalls ==
    {signalInput("detectExitSignal", rsi, <<candle(1000), candle(price)>>, t, 1000, 0) :
        rsi \in {<<>>} \cup {<<null, r>> : r \in ExitLevels},
        price \in ExitPrices, t \in AssetTypes}

ohlc(low, high) == [low |-> low, high |-> high, close |-> low]

\* Every window of five candles over the levels; the highs follow the lows
\* or mirror them.
Windows ==
    {[i \in 1..ShortLookback |->
        ohlc(lows[i], IF mirrored THEN 2 * MaxLevel + 1 - lows[i] ELSE lows[i] + 1)] :
        lows \in [1..ShortLookback -> 1..MaxLevel], mirrored \in BOOLEAN}

WindowRSI ==
    [1..ShortLookback -> {fromInt(40), fromInt(60)}]
        \cup {[i \in 1..ShortLookback |->
                 IF i = k THEN null ELSE fromInt(50)] : k \in 1..ShortLookback}

\* Windows whose first position has no RSI value yet, as the output of
\* calculateRSI begins.
PartialWindowRSI ==
    {[i \in 1..ShortLookback |-> IF i = 1 THEN null ELSE v[i]] :
        v \in [1..ShortLookback -> {fromInt(40), fromInt(60)}]}

\* n candles that rise by one level a candle, fall by one, or go up and
\* down in turn, lower each time (down) or higher each time (up).
trendUp(n) == [i \in 1..n |-> ohlc(i, i + 1)]
trendDown(n) == [i \in 1..n |-> ohlc(n + 1 - i, n + 2 - i)]
zigzagDown(n) ==
    [i \in 1..n |-> IF i % 2 = 0 THEN ohlc(2 * n - i, 2 * n + 1 - i)
                    ELSE ohlc(3 * n - i, 3 * n + 1 - i)]
zigzagUp(n) ==
    [i \in 1..n |-> IF i % 2 = 0 THEN ohlc(n + i, n + 1 + i)
                    ELSE ohlc(i, 1 + i)]

Shapes(n) == {trendUp(n), trendDown(n), zigzagDown(n), zigzagUp(n)}

rsiUp(n) == [i \in 1..n |-> fromInt(30 + i)]
rsiDown(n) == [i \in 1..n |-> fromInt(70 - i)]

WindowCall(rsi, candles) ==
    signalInput("detectRSIDivergence", rsi, candles, "none", 0, ShortLookback)

ShapeCalls ==
    {signalInput("detectRSIDivergence", rsi, candles, "none", 0, lookback) :
        rsi \in UNION {{rsiUp(n), rsiDown(n)} :
                          n \in {ShortLookback - 1, ShortLookback,
                                 DefaultLookback, DefaultLookback + 1}},
        candles \in UNION {Shapes(n) :
                              n \in {ShortLookback - 1, ShortLookback,
                                     DefaultLookback, DefaultLookback + 1}},
        lookback \in {ShortLookback, DefaultLookback}}

SignalCalls ==
    BuyCalls \cup LongBuyCalls \cup UnequalBuyCalls \cup UnequalLongBuyCalls
        \cup ExitCalls \cup ShapeCalls

InitSignals ==
    /\ InitPriceService
    /\ InitServer
    /\ rsiCall = NoCall
    /\ mtfCall = NoCall
    /\ portfolioCall = NoCall
    /\ \/ signalCall \in SignalCalls
       \/ \E rsi \in WindowRSI \cup PartialWindowRSI, candles \in Windows :
             signalCall = WindowCall(rsi, candles)
    /\ analysisCall = NoCall
    /\ tasks = <<>>
    /\ resumes = <<>>

\* The call ends in the state given: it returns a result or throws.
ends(state, result) ==
    /\ signalCall.state = "called"
    /\ signalCall' = [signalCall EXCEPT !.state = state, !.result = result]
    /\ UNCHANGED <<ohlcStorage, observed, svcVars, srvVars, rsiCall,
                   mtfCall, portfolioCall, analysisCall, tasks, resumes,
                   maxCandlesPerInterval>>

\* return result, and the exception that leaves the method
returns(result) == ends("returned", result)
throws(result) == ends("threw", result)

\* The outcome of a call of detectBuySignal: its result, or its exception.
settles(result) == IF result.error = "none" THEN returns(result) ELSE throws(result)

DetectBuySignal ==
    /\ signalCall.op = "detectBuySignal"
    /\ settles(detectBuySignal(signalCall.rsi, signalCall.candles,
                               signalCall.assetType))

DetectExitSignal ==
    /\ signalCall.op = "detectExitSignal"
    /\ returns(detectExitSignal(signalCall.rsi, signalCall.candles,
                                signalCall.entryPrice, signalCall.assetType))

DetectRSIDivergence ==
    /\ signalCall.op = "detectRSIDivergence"
    /\ returns(detectRSIDivergence(signalCall.rsi, signalCall.candles,
                                   signalCall.lookback))

NextSignals == DetectBuySignal \/ DetectExitSignal \/ DetectRSIDivergence

SpecSignals == InitSignals /\ [][NextSignals]_vars

(***************************************************************************)
(* RSIService.getMultiTimeframeRSI, getPortfolioSignals and analyzeAsset:  *)
(* what they compute from the candles that getOHLCData returns.            *)
(***************************************************************************)
MultiTimeframePeriod == 14   \* this.calculateRSI(candles, 14)
AnalysisLookback == 10     \* this.detectRSIDivergence(rsi, candles, 10)
MomentumLookback == 5      \* this.calculateMomentum(rsi, 5)

\* currentRSI < 30: 'oversold', currentRSI > 70: 'overbought'
rsiStatusOf(currentRSI) ==
    IF below(currentRSI, 30) THEN "oversold"
    ELSE IF above(currentRSI, 70) THEN "overbought"
    ELSE "neutral"

\* if (currentRSI !== null) results.push({ interval, rsi: currentRSI, status })
pushed(results, interval, currentRSI) ==
    IF currentRSI # null
    THEN Append(results, [interval |-> interval, rsi |-> currentRSI,
                          status |-> rsiStatusOf(currentRSI)])
    ELSE results

\* A mutation of pushInterval: a failed read discards what was collected.
pushIntervalOrReset(results, interval, read) ==
    IF ~read.ok
    THEN <<>>
    ELSE pushed(results, interval,
                last(calculateRSI(read.candles, MultiTimeframePeriod)))

\* One turn of the loop: try { ... results.push(...) } catch { warn }.  A
\* read that is ok has at least one candle.
pushInterval(results, interval, read) ==
    IF ~read.ok
    THEN results
    ELSE pushed(results, interval,
                last(calculateRSI(read.candles, MultiTimeframePeriod)))

\* The results after the first n intervals.
RECURSIVE getMultiTimeframeRSI(_, _, _)
getMultiTimeframeRSI(intervals, reads, n) ==
    IF n = 0 THEN <<>>
    ELSE pushInterval(getMultiTimeframeRSI(intervals, reads, n - 1),
                      intervals[n], reads[n])

\* rsi.slice(-lookback) for a whole lookback >= 0: the last lookback values,
\* all of them when there are no more, and all of them for lookback 0, as
\* -0 is the index 0.
sliceLast(rsi, lookback) ==
    IF lookback = 0 \/ Len(rsi) <= lookback THEN rsi ELSE lastOf(rsi, lookback)

\* calculateMomentum(rsi, lookback), lookback a whole number >= 0: the
\* change between the first and the last number of rsi.slice(-lookback).
calculateMomentum(rsi, lookback) ==
    LET recentRSI == SelectSeq(sliceLast(rsi, lookback), isNumber)
    IN  IF Len(recentRSI) < 2
        THEN "neutral"
        ELSE LET currentRSI == recentRSI[Len(recentRSI)]
                 previousRSI == recentRSI[1]
                 rsiChange == minus(currentRSI, previousRSI)
             IN  IF above(rsiChange, 10) THEN "building"
                 ELSE IF below(rsiChange, 0 - 10) THEN "weakening"
                 ELSE IF above(currentRSI, 60) THEN "strong"
                 ELSE IF below(currentRSI, 40) THEN "weak"
                 ELSE "neutral"

\* A mutation of analysisSignal: an overbought RSI is held, not sold.
analysisSignalWithoutSell(buySignal, bullish, overbought) ==
    IF buySignal.signal
    THEN [action |-> "BUY",
          confidence |-> IF bullish
                         THEN mathMin(plus(buySignal.confidence, decimal(2, 10)),
                                      fromInt(1))
                         ELSE buySignal.confidence]
    ELSE [action |-> "HOLD", confidence |-> zero]

\* analyzeAsset, "Determine action": the action and the confidence.
analysisSignal(buySignal, bullish, overbought) ==
    IF buySignal.signal
    THEN [action |-> "BUY",
          confidence |-> IF bullish
                         THEN mathMin(plus(buySignal.confidence, decimal(2, 10)),
                                      fromInt(1))
                         ELSE buySignal.confidence]
    ELSE IF overbought
    THEN [action |-> "SELL", confidence |-> decimal(6, 10)]
    ELSE [action |-> "HOLD", confidence |-> zero]

\* const multiTimeframeIntervals = ['5m', '1h', '1w']
multiTimeframeIntervals == <<"5m", "1h", "1w">>

\* mtfRSI.forEach(m => { multiTimeframe[m.interval] = m.rsi })
multiTimeframeOf(mtfRSI) ==
    [interval \in {mtfRSI[j].interval : j \in 1..Len(mtfRSI)} |->
        LET latest == CHOOSE j \in 1..Len(mtfRSI) :
                         /\ mtfRSI[j].interval = interval
                         /\ \A k \in (j + 1)..Len(mtfRSI) : mtfRSI[k].interval # interval
        IN  mtfRSI[latest].rsi]

rejectedAnalysis(error) == [status |-> "rejected", error |-> error]

\* analyzeAsset throws before its multi-timeframe part: getOHLCData threw,
\* or the last RSI value is null.
analysisThrows(asset, read) ==
    \/ ~read.ok
    \/ last(calculateRSI(read.candles, RSI_THRESHOLDS[asset.category].period)) = null

\* currentRSI < thresholds.oversold: 'oversold', > thresholds.overbought:
\* 'overbought'
analysisStatus(currentRSI, thresholds) ==
    IF below(currentRSI, thresholds.oversold) THEN "oversold"
    ELSE IF above(currentRSI, thresholds.overbought) THEN "overbought"
    ELSE "neutral"

\* The reasons as a list, without the RSI values that the program prints.
analysisReason(action, buyReason, bullish) ==
    IF action = "BUY"
    THEN buyReason \o (IF bullish THEN <<"with bullish divergence confirmation">>
                       ELSE <<>>)
    ELSE IF action = "SELL" THEN <<"RSI overbought">>
    ELSE <<"RSI in neutral zone">>

\* The signal of the result: the levels are set for a BUY only.
signalOf(decided, buyReason, bullish, currentPrice, thresholds) ==
    [action |-> decided.action,
     confidence |-> decided.confidence,
     entryPrice |-> IF decided.action = "BUY" THEN currentPrice ELSE undefined,
     stopLoss |-> IF decided.action = "BUY"
                  THEN times(currentPrice, minus(fromInt(1), thresholds.stopLoss))
                  ELSE undefined,
     takeProfit |-> IF decided.action = "BUY"
                    THEN times(currentPrice, plus(fromInt(1), thresholds.takeProfit))
                    ELSE undefined,
     riskRewardRatio |-> IF decided.action = "BUY"
                         THEN divide(thresholds.takeProfit, thresholds.stopLoss)
                         ELSE undefined,
     reason |-> analysisReason(decided.action, buyReason, bullish)]

\* The object that analyzeAsset returns.
analysisResult(asset, timeframe, currentPrice, rsi, thresholds, rsiStatus, buySignal, divergence, mtfRSI, timestamp) ==
    [status |-> "fulfilled",
     symbol |-> asset.symbol,
     category |-> asset.category,
     currentPrice |-> currentPrice,
     rsi |-> [value |-> last(rsi), period |-> thresholds.period,
              timeframe |-> timeframe, status |-> rsiStatus],
     signal |-> signalOf(analysisSignal(buySignal, divergence.bullish,
                                        rsiStatus = "overbought"),
                         buySignal.reason, divergence.bullish, currentPrice,
                         thresholds),
     analysis |->
         [divergence |-> IF divergence.bullish \/ divergence.bearish
                         THEN divergence ELSE null,
          momentum |-> calculateMomentum(rsi, MomentumLookback),
          multiTimeframe |-> multiTimeframeOf(mtfRSI)],
     timestamp |-> timestamp]

\* analyzeAsset from the RSI values on.  rsi is calculateRSI(candles, ..),
\* one value for every candle: detectBuySignal finds the closes it reads.
analysisOf(asset, timeframe, candles, rsi, thresholds, mtfReads, timestamp) ==
    IF last(rsi) = null
    THEN rejectedAnalysis("Unable to calculate RSI")
    ELSE analysisResult(asset, timeframe, Number(last(candles).close), rsi,
                        thresholds, analysisStatus(last(rsi), thresholds),
                        detectBuySignal(rsi, candles, asset.category),
                        detectRSIDivergence(rsi, candles, AnalysisLookback),
                        getMultiTimeframeRSI(multiTimeframeIntervals, mtfReads,
                                             Len(multiTimeframeIntervals)),
                        timestamp)

\* analyzeAsset with thresholds = RSI_THRESHOLDS[asset.category] and
\* timeframe = interval || thresholds.timeframe.
analysisWith(asset, interval, read, mtfReads, timestamp, thresholds) ==
    IF ~read.ok
    THEN rejectedAnalysis("getOHLCData")
    ELSE analysisOf(asset,
                    IF interval = "default" THEN thresholds.timeframe ELSE interval,
                    read.candles, calculateRSI(read.candles, thresholds.period),
                    thresholds, mtfReads, timestamp)

\* How the promise of analyzeAsset(asset, interval) settles when getOHLCData
\* of the timeframe gives read, the reads of the multi-timeframe part give
\* mtfReads and the clock shows timestamp at the end.  interval is
\* "default" when the caller passes none.  The reasons are lists, given
\* without the RSI values that the program prints in them.
analyzeAsset(asset, interval, read, mtfReads, timestamp) ==
    analysisWith(asset, interval, read, mtfReads, timestamp,
                 RSI_THRESHOLDS[asset.category])

\* A mutation of retained: HOLD is filtered like every other action.
retainedByConfidenceOnly(signal, minConfidence) ==
    atLeast(signal.confidence, minConfidence)

\* analysis.signal.confidence >= minConfidence || analysis.signal.action === 'HOLD'
retained(signal, minConfidence) ==
    atLeast(signal.confidence, minConfidence) \/ signal.action = "HOLD"

\* A mutation of pushSignal: a rejected analysis is reported as a HOLD.
pushSignalOrFailure(signals, asset, result, minConfidence) ==
    IF result.status = "fulfilled"
    THEN IF retained(result.signal, minConfidence)
         THEN Append(signals, result)
         ELSE signals
    ELSE Append(signals, [status |-> "rejected", symbol |-> asset.symbol,
                          category |-> asset.category,
                          signal |-> [action |-> "HOLD", confidence |-> zero]])

\* One turn of analyses.forEach, for the list of signals.
pushSignal(signals, asset, result, minConfidence) ==
    IF result.status = "fulfilled"
    THEN IF retained(result.signal, minConfidence)
         THEN Append(signals, result)
         ELSE signals
    ELSE signals

NoTally == [buy |-> 0, sell |-> 0, hold |-> 0]

NoSummary ==
    [totalBuySignals |-> 0, totalSellSignals |-> 0, totalHoldSignals |-> 0,
     byCategory |-> [c \in {} |-> NoTally]]

\* A mutation of tally: the entry of the category is created anew each time.
tallyFromZero(byCategory, category, action) ==
    LET new == IF action = "BUY" THEN [NoTally EXCEPT !.buy = @ + 1]
               ELSE IF action = "SELL" THEN [NoTally EXCEPT !.sell = @ + 1]
               ELSE [NoTally EXCEPT !.hold = @ + 1]
    IN  [c \in DOMAIN byCategory \cup {category} |->
            IF c = category THEN new ELSE byCategory[c]]

\* summary.byCategory[category].buy++ (or sell, or hold), on the entry that
\* is created when the category is met first.
tally(byCategory, category, action) ==
    LET old == IF category \in DOMAIN byCategory THEN byCategory[category] ELSE NoTally
        new == IF action = "BUY" THEN [old EXCEPT !.buy = @ + 1]
               ELSE IF action = "SELL" THEN [old EXCEPT !.sell = @ + 1]
               ELSE [old EXCEPT !.hold = @ + 1]
    IN  [c \in DOMAIN byCategory \cup {category} |->
            IF c = category THEN new ELSE byCategory[c]]

\* One turn of analyses.forEach, for the summary.
updateSummary(summary, asset, result, minConfidence) ==
    IF result.status = "fulfilled" /\ retained(result.signal, minConfidence)
    THEN [totalBuySignals |-> summary.totalBuySignals
                                + (IF result.signal.action = "BUY" THEN 1 ELSE 0),
          totalSellSignals |-> summary.totalSellSignals
                                + (IF result.signal.action = "SELL" THEN 1 ELSE 0),
          totalHoldSignals |-> summary.totalHoldSignals
                                + (IF result.signal.action \notin {"BUY", "SELL"}
                                   THEN 1 ELSE 0),
          byCategory |-> tally(summary.byCategory, result.category,
                               result.signal.action)]
    ELSE summary

\* signals and summary after the first n analyses.
RECURSIVE getPortfolioSignals(_, _, _, _)
getPortfolioSignals(assets, analyses, minConfidence, n) ==
    IF n = 0 THEN [signals |-> <<>>, summary |-> NoSummary]
    ELSE LET r == getPortfolioSignals(assets, analyses, minConfidence, n - 1)
         IN  [signals |-> pushSignal(r.signals, assets[n], analyses[n], minConfidence),
              summary |-> updateSummary(r.summary, assets[n], analyses[n],
                                        minConfidence)]

(***************************************************************************)
(* The calls of analyzeAsset and getMultiTimeframeRSI as they run: a task  *)
(* is one call.  It awaits priceService.getOHLCData for the timeframe of   *)
(* the analysis (stage "read") and for each interval of the                *)
(* multi-timeframe part (stage "mtf").  getOHLCData awaits getAssetPrice,  *)
(* which is served from the cache or sends a request to the feed; the      *)
(* task reads the series when it resumes.  Between an await and its        *)
(* resumption the poller, the feed and the other tasks take their steps.   *)
(***************************************************************************)
AnalysisCount == 100        \* getOHLCData(asset.mintAddress, timeframe, 100)
MultiTimeframeCount == 50   \* getOHLCData(mintAddress, interval, 50)

NoRead == [ok |-> FALSE, status |-> "none", candles |-> <<>>]
Pending == [status |-> "pending"]

newTask(op, caller, asset, interval, intervals) ==
    [op |-> op, caller |-> caller, asset |-> asset, interval |-> interval,
     intervals |-> intervals,
     stage |-> IF op = "analyzeAsset" THEN "read" ELSE "mtf",
     pc |-> "none", read |-> NoRead, reads |-> <<>>, settled |-> Pending]

\* The arguments of the getOHLCData that the task awaits.
requestOf(t) ==
    [NoReq EXCEPT
       !.op = "getOHLCData",
       !.asset = t.asset.symbol,
       !.interval = IF t.stage = "mtf" THEN t.intervals[Len(t.reads) + 1]
                    ELSE IF t.interval = "default"
                    THEN RSI_THRESHOLDS[t.asset.category].timeframe
                    ELSE t.interval,
       !.count = IF t.stage = "mtf" THEN MultiTimeframeCount ELSE AnalysisCount]

\* getOHLCData up to its await (part_013:417-428): an unknown asset throws,
\* a fresh cache entry fulfils getAssetPrice, otherwise the fetcher sends a
\* request upstream.
awaitOHLCData(t) ==
    [t EXCEPT !.pc = IF t.asset.symbol \notin SOLANA_ASSETS THEN "not_found"
                     ELSE IF cacheFresh(cache, t.asset.symbol, now) THEN "fulfilled"
                     ELSE "fetching"]

\* The promise of getOHLCData is settled but for the reading of the series.
due(t) == t.pc \in {"not_found", "fulfilled", "rejected"}

\* What the await of getOHLCData gives the task that resumes.
readOf(t) ==
    IF t.pc = "fulfilled"
    THEN LET r == readCandles(ohlcStorage, requestOf(t))
         IN  [ok |-> r.status = "ok", status |-> r.status, candles |-> r.candles]
    ELSE [ok |-> FALSE,
          status |-> IF t.pc = "not_found" THEN "not_found" ELSE "upstream_error",
          candles |-> <<>>]

\* The task runs from the await that gave read to its next await or to its
\* end.
resumed(t, read, timestamp) ==
    IF t.stage = "read"
    THEN IF analysisThrows(t.asset, read)
         THEN [t EXCEPT !.read = read, !.pc = "threw",
                        !.settled = analyzeAsset(t.asset, t.interval, read, <<>>,
                                                 timestamp)]
         ELSE awaitOHLCData([t EXCEPT !.read = read, !.stage = "mtf"])
    ELSE LET reads == Append(t.reads, read)
         IN  IF Len(reads) < Len(t.intervals)
             THEN awaitOHLCData([t EXCEPT !.reads = reads])
             ELSE [t EXCEPT
                     !.reads = reads,
                     !.pc = "returned",
                     !.settled =
                         IF t.op = "analyzeAsset"
                         THEN analyzeAsset(t.asset, t.interval, t.read, reads,
                                           timestamp)
                         ELSE [status |-> "fulfilled",
                               results |-> getMultiTimeframeRSI(t.intervals, reads,
                                                                Len(reads))]]

\* A tool handler calls getMultiTimeframeRSI(mintAddress, intervals).  With
\* no interval the loop does not run.
MultiTimeframeCall(id, intervals) ==
    /\ mtfCall = NoCall
    /\ tasks = <<>>
    /\ ~callbackDue
    /\ LET asset == [symbol |-> id,
                     category |-> IF id \in DOMAIN ASSET_CATEGORY
                                  THEN ASSET_CATEGORY[id] ELSE "none"]
           t == awaitOHLCData(newTask("getMultiTimeframeRSI", "tool", asset,
                                      "default", intervals))
       IN  IF intervals = <<>>
           THEN /\ mtfCall' = [state |-> "returned", asset |-> id,
                               intervals |-> intervals, reads |-> <<>>,
                               results |-> <<>>]
                /\ UNCHANGED taskVars
           ELSE /\ mtfCall' = [state |-> "called", asset |-> id,
                               intervals |-> intervals, reads |-> <<>>,
                               results |-> <<>>]
                /\ tasks' = <<t>>
                /\ resumes' = IF due(t) THEN <<1>> ELSE <<>>
    /\ Quiet
    /\ UNCHANGED <<ohlcStorage, observed, now, nextPoll, cache, pollInflight, client,
                   stores, fetching, calls, lastFetch>>
    /\ UNCHANGED <<srvVars, rsiCall, portfolioCall, signalCall, analysisCall,
                   maxCandlesPerInterval>>

\* A tool handler calls analyzeAsset(asset, interval).
AnalyzeAssetCall(asset, interval) ==
    /\ analysisCall = NoCall
    /\ tasks = <<>>
    /\ ~callbackDue
    /\ LET t == awaitOHLCData(newTask("analyzeAsset", "tool", asset, interval,
                                      multiTimeframeIntervals))
       IN  /\ analysisCall' = [state |-> "called", asset |-> asset,
                               interval |-> interval, read |-> NoRead,
                               mtfReads |-> <<>>, result |-> Pending]
           /\ tasks' = <<t>>
           /\ resumes' = IF due(t) THEN <<1>> ELSE <<>>
    /\ Quiet
    /\ UNCHANGED <<ohlcStorage, observed, now, nextPoll, cache, pollInflight, client,
                   stores, fetching, calls, lastFetch>>
    /\ UNCHANGED <<srvVars, rsiCall, mtfCall, portfolioCall, signalCall,
                   maxCandlesPerInterval>>

\* A tool handler calls getPortfolioSignals(assets, minConfidence):
\* assets.map(asset => this.analyzeAsset(asset)) runs every analysis up to
\* its first await, then the call awaits Promise.allSettled.
PortfolioCall(assets, minConfidence) ==
    /\ portfolioCall = NoCall
    /\ tasks = <<>>
    /\ ~callbackDue
    /\ LET started == [i \in 1..Len(assets) |->
                         awaitOHLCData(newTask("analyzeAsset", "getPortfolioSignals",
                                               assets[i], "default",
                                               multiTimeframeIntervals))]
           isDue(i) == due(started[i])
       IN  /\ tasks' = started
           /\ resumes' = SelectSeq([i \in 1..Len(assets) |-> i], isDue)
    /\ portfolioCall' = [state |-> "called", assets |-> assets,
                         minConfidence |-> minConfidence, analyses |-> <<>>,
                         result |-> [timestamp |-> 0, signals |-> <<>>,
                                     summary |-> NoSummary]]
    /\ Quiet
    /\ UNCHANGED <<ohlcStorage, observed, now, nextPoll, cache, pollInflight, client,
                   stores, fetching, calls, lastFetch>>
    /\ UNCHANGED <<srvVars, rsiCall, mtfCall, signalCall, analysisCall,
                   maxCandlesPerInterval>>

\* The feed answers the request of a task.  A rejection of the fetcher
\* passes the then-callback by and rejects the getOHLCData of the task.
TaskFetched(i, ans) ==
    /\ i \in 1..Len(tasks)
    /\ tasks[i].pc = "fetching"
    /\ ~callbackDue
    /\ fetched(tasks[i].asset.symbol, ans, "task", i)
    /\ IF fetcher(tasks[i].asset.symbol, ans, now, ohlcStorage).ok
       THEN /\ tasks' = [tasks EXCEPT ![i].pc = "fetched"]
            /\ resumes' = resumes
       ELSE /\ tasks' = [tasks EXCEPT ![i].pc = "rejected"]
            /\ resumes' = Append(resumes, i)
    /\ Quiet
    /\ UNCHANGED <<observed, now, nextPoll, cache, pollInflight, client, fetching,
                   calls, lastFetch>>
    /\ UNCHANGED extVars

\* The task i goes on as u; when it is the call of a tool handler and u has
\* settled, the call returns.
continues(i, u) ==
    /\ tasks' = [tasks EXCEPT ![i] = u]
    /\ resumes' = IF due(u) THEN Append(Tail(resumes), i) ELSE Tail(resumes)
    /\ mtfCall' = IF /\ u.caller = "tool"
                     /\ u.settled.status # "pending"
                     /\ u.op = "getMultiTimeframeRSI"
                  THEN [mtfCall EXCEPT !.state = "returned",
                                       !.reads = u.reads,
                                       !.results = u.settled.results]
                  ELSE mtfCall
    /\ analysisCall' = IF /\ u.caller = "tool"
                          /\ u.settled.status # "pending"
                          /\ u.op = "analyzeAsset"
                       THEN [analysisCall EXCEPT !.state = "returned",
                                                 !.read = u.read,
                                                 !.mtfReads = u.reads,
                                                 !.result = u.settled]
                       ELSE analysisCall

\* The task that is due first resumes after its await: getOHLCData reads
\* the series (part_013:428-441) or throws, and the task runs to its next
\* await or to its end, where the call of a tool handler returns.
TaskResumes ==
    /\ resumes # <<>>
    /\ continues(Head(resumes),
                 resumed(tasks[Head(resumes)], readOf(tasks[Head(resumes)]), now))
    /\ Quiet
    /\ UNCHANGED <<ohlcStorage, observed, now, nextPoll, cache, pollInflight, client,
                   stores, fetching, calls, lastFetch>>
    /\ UNCHANGED <<srvVars, rsiCall, portfolioCall, signalCall,
                   maxCandlesPerInterval>>

\* getPortfolioSignals resumes after Promise.allSettled, which never
\* rejects: it filters the analyses and counts them.
PortfolioResumes ==
    /\ allSettled
    /\ resumes = <<>>
    /\ LET analyses == [i \in 1..Len(tasks) |-> tasks[i].settled]
           r == getPortfolioSignals(portfolioCall.assets, analyses,
                                    portfolioCall.minConfidence, Len(analyses))
       IN  portfolioCall' = [portfolioCall EXCEPT
                               !.state = "returned",
                               !.analyses = analyses,
                               !.result = [timestamp |-> now, signals |-> r.signals,
                                           summary |-> r.summary]]
    /\ Quiet
    /\ UNCHANGED <<ohlcStorage, observed, now, nextPoll, cache, pollInflight, client,
                   stores, fetching, calls, lastFetch>>
    /\ UNCHANGED <<srvVars, rsiCall, mtfCall, signalCall, analysisCall, tasks,
                   resumes, maxCandlesPerInterval>>

(***************************************************************************)
(* The service after it has run for a while: the feed has given each       *)
(* instrument a history of quotes, one per hour or one per week, and every *)
(* quote went into the series and the cache as getAssetPrice writes it.    *)
(* The closes of a history fall by one a quote down to BaseClose and end   *)
(* with a tail of changes.  The last quote of an instrument is a second    *)
(* old (its cache entry is fresh) or a whole spacing old (stale).          *)
(***************************************************************************)
DefaultMaxCandles == 1000   \* parseInt(process.env.MAX_CANDLES || '1000')
BaseClose == 1000           \* the close before the tail
MaxIntervals == 2           \* intervals asked for in one call
MaxAssets == 2              \* instruments of one call

Hour == TIME_INTERVALS["1h"]
Week == TIME_INTERVALS["1w"]

\* The clock when the calls begin, a second before the end of the run and
\* after the buckets of all intervals have turned.
Start == Epoch + MaxClock - 1

RECURSIVE sumTo(_, _)
sumTo(tail, k) == IF k = 0 THEN 0 ELSE sumTo(tail, k - 1) + tail[k]

\* n closes: down by one a quote to BaseClose, then the changes of tail
closes(n, tail) ==
    [i \in 1..n |->
        IF i <= n - Len(tail) THEN BaseClose + (n - Len(tail) - i)
        ELSE BaseClose + sumTo(tail, i - (n - Len(tail)))]

history(prices, spacing, age) == [prices |-> prices, spacing |-> spacing, age |-> age]

\* One quote a second ago.
single == history(<<BaseClose>>, Hour, 1)

\* getAssetPrice of asset at time t with the answer price, stored in the
\* same second (part_013:231-241, 279-309).
quoted(service, asset, price, t) ==
    LET r == fetcher(asset, [status |-> "http_ok", usdPrice |-> numberPrice(price),
                             priceChange24h |-> undefinedPrice], t, service.storage)
    IN  [service EXCEPT
           !.storage = r.storage,
           !.cache = cacheStore(service.cache, asset, r.data, t),
           !.lastFetch = [service.lastFetch EXCEPT ![asset] = [data |-> r.data, at |-> t]]]

\* The first n quotes of the history h of asset, the last one at
\* Start - h.age.  Each quote is applied to the service that the quotes
\* before it have left.
RECURSIVE replay(_, _, _, _)
replay(service, asset, h, n) ==
    IF n = 0 THEN service
    ELSE CHOOSE after \in
             {quoted(before, asset, h.prices[n],
                     Start - h.age - (Len(h.prices) - n) * h.spacing) :
                before \in {replay(service, asset, h, n - 1)}} : TRUE

\* The instruments of the registry in the order of their first quote.
Registry == <<"WBTC", "cbBTC", "TSLAx", "PAXG">>

NewService ==
    [storage |-> [a \in DOMAIN ASSET_CATEGORY |-> [i \in TimeInterval |-> <<>>]],
     cache |-> <<>>,
     lastFetch |-> [a \in DOMAIN ASSET_CATEGORY |-> NoFetch]]

\* The service after the histories of the first k instruments.
RECURSIVE prepared(_, _)
prepared(histories, k) ==
    IF k = 0 THEN NewService
    ELSE CHOOSE after \in
             {replay(before, Registry[k], histories[Registry[k]],
                     Len(histories[Registry[k]].prices)) :
                before \in {prepared(histories, k - 1)}} : TRUE

\* new PriceService() without MAX_CANDLES, after the histories; the timer
\* of the poller is due in a second and no call of the RSI service has
\* been made.
InitPrepared(histories) ==
    /\ maxCandlesPerInterval = DefaultMaxCandles
    /\ LET service == prepared(histories, Len(Registry))
       IN  /\ ohlcStorage = service.storage
           /\ cache = service.cache
           /\ lastFetch = service.lastFetch
    /\ observed = [a \in DOMAIN ASSET_CATEGORY |-> <<>>]
    /\ now = Start
    /\ nextPoll = Start + 1
    /\ pollInflight = [a \in DOMAIN ASSET_CATEGORY |-> 0]
    /\ client = NoReq
    /\ stores = <<>>
    /\ fetching = EmptyBag
    /\ calls = 0
    /\ resp = NoResp
    /\ InitServer
    /\ InitRSIService

\* The answers of the feed while the RSI service is called: the feed is not
\* reached, or it quotes the price 1, alone or with a priceChange24h whose
\* toString throws after the candles have been written.
QuoteAnswers ==
    {ans \in Answers :
        \/ ans.status = "unreachable"
        \/ ans.usdPrice = numberPrice(1) /\ ans.priceChange24h.type # "number"}

(***************************************************************************)
(* getMultiTimeframeRSI: one call of a tool handler while the poller and   *)
(* the feed run.  WBTC has a history that falls, rises or turns, just long *)
(* enough for a value of RSI(14) or one quote too short; the other         *)
(* instruments have one quote.                                             *)
(***************************************************************************)
MultiTimeframeTails == {<<0 - 3, 0 - 3>>, <<0 - 3, 8>>, <<1, 8, 8, 8>>}

\* One quote a week: the series of a month is too short for a value, the
\* series of a week has a candle for each quote.  The cache entry of the
\* last quote is in its last fresh second (it goes stale while the call
\* runs) or an hour old (stale).
MultiTimeframeHistories ==
    {history(closes(n, tail), Week, age) :
        n \in {MultiTimeframePeriod, MultiTimeframePeriod + 1},
        tail \in MultiTimeframeTails, age \in {cacheTTL - 1, Hour}}

\* The intervals that a call names.
CalledIntervals == {"1w", "1M"}

InitMultiTimeframe ==
    \E h \in MultiTimeframeHistories :
        InitPrepared([a \in DOMAIN ASSET_CATEGORY |-> IF a = "WBTC" THEN h ELSE single])

NextMultiTimeframe ==
    \/ Tick
    \/ PollerFire
    \/ \E a \in SOLANA_ASSETS, ans \in QuoteAnswers : PollerFetched(a, ans)
    \/ \E id \in {"WBTC", "DOGE"}, n \in 0..MaxIntervals :
          \E intervals \in [1..n -> CalledIntervals] : MultiTimeframeCall(id, intervals)
    \/ \E i \in 1..MaxAssets, ans \in QuoteAnswers : TaskFetched(i, ans)
    \/ ThenCallback
    \/ TaskResumes

SpecMultiTimeframe == InitMultiTimeframe /\ [][NextMultiTimeframe]_vars

(***************************************************************************)
(* analyzeAsset: one call of a tool handler while the poller and the feed  *)
(* run.  One instrument has a history with a tail that leaves the RSI      *)
(* oversold, overbought or crossing its threshold, with and without a      *)
(* divergence; there are just enough quotes for the first RSI values of    *)
(* its period, or ten more.                                                *)
(***************************************************************************)
AnalysisTails ==
    {<<0 - 3, 0 - 3>>, <<0 - 3, 8>>, <<0 - 3, 6, 1>>, <<1, 8, 8, 8>>, <<1, 6>>,
     <<1, 0 - 3, 1, 6>>}

\* The tails of the histories that are too short for two RSI values, and
\* of those long enough for the window of the divergence.
ShortTails == {<<0 - 3, 8>>, <<1, 8, 8, 8>>}
DivergenceTails == {<<1, 0 - 3, 1, 2, 2>>, <<1, 0 - 3, 1, 6>>, <<1, 8, 8, 8>>}

\* A history of period + k quotes, one an hour, the last one a second old
\* (its cache entry is fresh).
recent(category, k, tail) ==
    history(closes(RSI_THRESHOLDS[category].period + k, tail), Hour, 1)

\* The same history, its last quote a whole spacing old (stale).
stale(h) == [h EXCEPT !.age = h.spacing]

\* Histories of the stocks with the 50 quotes that the EMA50 takes: the
\* closes fall, lose 3 and then rise above the EMA50, rise but stay below
\* it, or fall again.  The rise above the average also comes after 49 and
\* after 16 quotes, which have no EMA50.
StockTails == {<<0 - 3, 30>>, <<0 - 3, 10>>, <<0 - 3, 0 - 3>>}
StockHistories ==
    {recent("rwa-stocks", EMA_PERIOD - RSI_THRESHOLDS["rwa-stocks"].period, tail) :
        tail \in StockTails}
      \cup {recent("rwa-stocks", k, <<0 - 3, 30>>) :
                k \in {2, EMA_PERIOD - 1 - RSI_THRESHOLDS["rwa-stocks"].period}}

\* The histories for a category: the period and one more quote, two more,
\* and enough for ten RSI values; one history is stale; for the stocks also
\* those of the length of the EMA50.
AnalysisHistories(category) ==
    {recent(category, k, tail) : k \in {0, 1}, tail \in ShortTails}
      \cup {recent(category, 2, tail) : tail \in AnalysisTails}
      \cup {recent(category, AnalysisLookback, tail) : tail \in DivergenceTails}
      \cup {stale(recent(category, 2, <<0 - 3, 8>>))}
      \cup (IF category = "rwa-stocks" THEN StockHistories ELSE {})

\* The instruments of the registry: two of one category, one of each
\* other.
PortfolioAssets ==
    {[symbol |-> a, category |-> ASSET_CATEGORY[a]] : a \in DOMAIN ASSET_CATEGORY}

AnalysisIntervals == {"default", "1m"}

InitAnalysis ==
    \E subject \in {"WBTC", "TSLAx", "PAXG"} :
        \E h \in AnalysisHistories(ASSET_CATEGORY[subject]) :
            InitPrepared([a \in DOMAIN ASSET_CATEGORY |->
                            IF a = subject THEN h ELSE single])

NextAnalysis ==
    \/ Tick
    \/ PollerFire
    \/ \E a \in SOLANA_ASSETS, ans \in QuoteAnswers : PollerFetched(a, ans)
    \/ \E asset \in PortfolioAssets, interval \in AnalysisIntervals :
          AnalyzeAssetCall(asset, interval)
    \/ \E i \in 1..MaxAssets, ans \in QuoteAnswers : TaskFetched(i, ans)
    \/ ThenCallback
    \/ TaskResumes

SpecAnalysis == InitAnalysis /\ [][NextAnalysis]_vars

(***************************************************************************)
(* getPortfolioSignals: one call of a tool handler for a list of           *)
(* instruments while the poller and the feed run.  Each instrument has one *)
(* quote or a history that makes its analysis buy, sell or hold.           *)
(***************************************************************************)
\* The histories of the registry in three cases.  In the first the
\* analyses give a BUY at the default minConfidence, a BUY of the base
\* score, a SELL and a failure; in the second the first instrument has a
\* stale quote; in the third they give a SELL, a HOLD, a failure and a BUY
\* of the base score.
PortfolioHistories ==
    {[a \in DOMAIN ASSET_CATEGORY |->
        IF a = "WBTC" THEN first
        ELSE IF a = "cbBTC" THEN recent("wrapped-btc", 2, <<0 - 3, 6, 1>>)
        ELSE IF a = "TSLAx" THEN recent("rwa-stocks", 2, <<1, 8, 8, 8>>)
        ELSE single] :
       first \in {recent("wrapped-btc", 2, <<0 - 3, 8>>),
                  stale(recent("wrapped-btc", 2, <<0 - 3, 8>>))}}
      \cup {[a \in DOMAIN ASSET_CATEGORY |->
                IF a = "WBTC" THEN recent("wrapped-btc", 1, <<1, 8, 8, 8>>)
                ELSE IF a = "cbBTC" THEN recent("wrapped-btc", 2, <<0 - 3, 0 - 3>>)
                ELSE IF a = "PAXG" THEN recent("gold", 2, <<1, 6>>)
                ELSE single]}

\* minConfidence, 0.6 by default; the tool accepts 0 to 1.
MinConfidences == {decimal(6, 10), decimal(7, 10)}

\* The lists of n different instruments.
AssetLists(n) ==
    {assets \in [1..n -> PortfolioAssets] :
        \A i \in 1..n, j \in 1..n : i # j => assets[i] # assets[j]}

InitPortfolio == \E histories \in PortfolioHistories : InitPrepared(histories)

NextPortfolio ==
    \/ Tick
    \/ PollerFire
    \/ \E a \in SOLANA_ASSETS, ans \in QuoteAnswers : PollerFetched(a, ans)
    \/ \E n \in 0..MaxAssets :
          \E assets \in AssetLists(n), minConfidence \in MinConfidences :
              PortfolioCall(assets, minConfidence)
    \/ \E i \in 1..MaxAssets, ans \in QuoteAnswers : TaskFetched(i, ans)
    \/ ThenCallback
    \/ TaskResumes
    \/ PortfolioResumes

SpecPortfolio == InitPortfolio /\ [][NextPortfolio]_vars

(***************************************************************************)
(* Claims about the candle aggregator, checked under SpecIngest.           *)
(***************************************************************************)
RECURSIVE MaxPriceOf(_)
MaxPriceOf(s) ==
    IF Len(s) = 1 THEN s[1].price ELSE Max(s[1].price, MaxPriceOf(Tail(s)))

RECURSIVE MinPriceOf(_)
MinPriceOf(s) ==
    IF Len(s) = 1 THEN s[1].price ELSE Min(s[1].price, MinPriceOf(Tail(s)))

\* All the observations of s fall in one bucket of an interval of duration d.
SameBucket(s, d) ==
    /\ s # <<>>
    /\ \A k \in 1..Len(s) : s[k].timestamp \div d = s[1].timestamp \div d

\* C1: when all the observations of an instrument carry a number as price
\* and fall in the same bucket of an interval, the series of that interval is the one candle of that
\* bucket, with open = the first price, close = the last price, high = the
\* maximum and low = the minimum of the prices.
C1_SameBucketCandle ==
    \A a \in SOLANA_ASSETS, i \in TimeInterval :
        LET s == observed[a]
            d == TIME_INTERVALS[i]
        IN  (SameBucket(s, d) /\ \A k \in 1..Len(s) : s[k].price # NaN) =>
              /\ Len(ohlcStorage[a][i]) = 1
              /\ ohlcStorage[a][i][1].timestamp = (s[1].timestamp \div d) * d
              /\ ohlcStorage[a][i][1].open = s[1].price
              /\ ohlcStorage[a][i][1].close = s[Len(s)].price
              /\ ohlcStorage[a][i][1].high = MaxPriceOf(s)
              /\ ohlcStorage[a][i][1].low = MinPriceOf(s)

\* Three observations at three different seconds of one minute, the highest
\* price in the middle.
C1_Witness ==
    \E a \in SOLANA_ASSETS :
        /\ Len(observed[a]) = 3
        /\ SameBucket(observed[a], TIME_INTERVALS["1m"])
        /\ ~SameBucket(observed[a], TIME_INTERVALS["1s"])
        /\ observed[a][1].price = 1
        /\ observed[a][2].price = 2
        /\ observed[a][3].price = 1
        /\ ohlcStorage[a]["1m"][1].high = 2
        /\ ohlcStorage[a]["1m"][1].close = 1

\* The last observation of instrument a, once one more has been ingested.
LastObserved(a) == observed'[a][Len(observed'[a])]

\* The step ingests an observation of a for which the series of interval i
\* holds no candle.
CreatesCandle(a, i) ==
    /\ observed'[a] # observed[a]
    /\ \A k \in 1..Len(ohlcStorage[a][i]) :
          ohlcStorage[a][i][k].timestamp #
            (LastObserved(a).timestamp \div TIME_INTERVALS[i]) * TIME_INTERVALS[i]

\* C2: no series is ever longer than the cap, and an ingest that creates a
\* candle in a full series removes exactly the head of the series and keeps
\* every other candle, the new one at the tail.
C2_CapAndEviction ==
    /\ [](\A a \in SOLANA_ASSETS, i \in TimeInterval :
            Len(ohlcStorage[a][i]) <= maxCandlesPerInterval)
    /\ [][\A a \in SOLANA_ASSETS, i \in TimeInterval :
            (CreatesCandle(a, i) /\ Len(ohlcStorage[a][i]) = maxCandlesPerInterval) =>
              /\ Len(ohlcStorage'[a][i]) = maxCandlesPerInterval
              /\ \A k \in 1..(maxCandlesPerInterval - 1) :
                    ohlcStorage'[a][i][k] = ohlcStorage[a][i][k + 1]
              /\ ohlcStorage'[a][i][maxCandlesPerInterval] =
                    newCandle((LastObserved(a).timestamp \div TIME_INTERVALS[i])
                                 * TIME_INTERVALS[i],
                              LastObserved(a).price)]_aggVars

\* A full series whose head was evicted: more buckets were observed than
\* the series holds.
C2_Witness ==
    \E a \in SOLANA_ASSETS :
        /\ Len(ohlcStorage[a]["1s"]) = maxCandlesPerInterval
        /\ Cardinality({observed[a][k].timestamp : k \in 1..Len(observed[a])})
              > maxCandlesPerInterval
        /\ ohlcStorage[a]["1s"][1].timestamp # observed[a][1].timestamp

\* C3: every stored candle has low <= open <= high and low <= close <= high,
\* and its bucketStart is a multiple of the duration of its interval.
C3_CandleInvariant ==
    \A a \in SOLANA_ASSETS, i \in TimeInterval :
        \A k \in 1..Len(ohlcStorage[a][i]) :
            LET c == ohlcStorage[a][i][k]
            IN  /\ AtMost(c.low, c.open) /\ AtMost(c.open, c.high)
                /\ AtMost(c.low, c.close) /\ AtMost(c.close, c.high)
                /\ c.timestamp % TIME_INTERVALS[i] = 0

\* C4: every series is ordered by bucketStart, strictly ascending.
C4_StrictlyAscending ==
    \A a \in SOLANA_ASSETS, i \in TimeInterval :
        \A k \in 1..(Len(ohlcStorage[a][i]) - 1) :
            ohlcStorage[a][i][k].timestamp < ohlcStorage[a][i][k + 1].timestamp

(***************************************************************************)
(* Claims about the service, checked under Spec.                           *)
(***************************************************************************)
\* The answer of the feed carries a usable price: the status is OK and
\* usdPrice is a positive number.
Usable(ans) ==
    /\ ans.status = "http_ok"
    /\ ans.usdPrice.type = "number"
    /\ ans.usdPrice.number > 0

\* The call of the client returns or throws in this step.
ClientReturns == resp' # NoResp

\* C5: a getOHLCData that returns, returns the last min(count, length)
\* candles of the series in series order, and it fails for lack of data only
\* when the series is empty.
C5_LastCandles ==
    (resp.req.op = "getOHLCData" /\ resp.req.asset \in SOLANA_ASSETS) =>
        LET s == ohlcStorage[resp.req.asset][resp.req.interval]
            n == Min(resp.req.count, Len(s))
        IN  /\ resp.status = "ok" =>
                /\ Len(resp.candles) = n
                /\ \A k \in 1..n : resp.candles[k] = s[Len(s) - n + k]
            /\ resp.status = "no_data" => s = <<>>

\* A read of one candle of a series of two, and it is the newer one.
C5_Witness ==
    /\ resp.req.op = "getOHLCData"
    /\ resp.status = "ok"
    /\ resp.req.count = 1
    /\ Len(ohlcStorage[resp.req.asset][resp.req.interval]) = 2
    /\ resp.candles = <<ohlcStorage[resp.req.asset][resp.req.interval][2]>>

\* C6: a read of a series that holds candles returns them, also when the
\* upstream fetch fails.
C6_StoredCandlesReadable ==
    (/\ resp.req.op = "getOHLCData"
     /\ resp.req.asset \in SOLANA_ASSETS
     /\ ohlcStorage[resp.req.asset][resp.req.interval] # <<>>)
        => resp.status = "ok"

\* C7: when the feed is not reached, answers with a status that is not OK
\* or returns no usable price, the fetch writes no candle and hands no
\* result to the cache, and the caller gets an error without a price.
C7_FailedFetchIsVisible ==
    [][\A ans \in Answers :
          ~Usable(ans) =>
            /\ (\E a \in SOLANA_ASSETS : PollerFetched(a, ans)) =>
                  (ohlcStorage' = ohlcStorage /\ stores' = stores)
            /\ ClientFetched(ans) =>
                  /\ ohlcStorage' = ohlcStorage
                  /\ stores' = stores
                  /\ resp'.status = "upstream_error"
                  /\ resp'.data = NoData]_vars

\* C8: the candle series change only in a step in which the fetcher handles
\* an answer for the poller: no request changes a series, so that the
\* series before and after a request are the same unless a cycle of the
\* poller ran in between.
C8_PollerIsOnlyWriter ==
    [][ohlcStorage' # ohlcStorage =>
          \E a \in SOLANA_ASSETS : pollInflight'[a] < pollInflight[a]]_vars

\* C9: on every firing of the poller an observation of every asset is
\* fetched for the aggregator.
C9_EveryFiringFetches ==
    [][nextPoll' # nextPoll =>
          \A a \in SOLANA_ASSETS : pollInflight'[a] = pollInflight[a] + 1]_vars

\* getAssetPrice is called for asset a in this step, by the poller or by
\* the client.
Called(a) ==
    \/ nextPoll' # nextPoll
    \/ calls' # calls /\ (resp'.req.asset = a \/ client'.asset = a)

\* The call of this step for asset a sends a request upstream.
Upstream(a) ==
    \/ pollInflight'[a] > pollInflight[a]
    \/ calls' # calls /\ client'.asset = a /\ client'.pc = "fetching"

\* C10: a call issued less than cacheTTL after the last successful fetch of
\* the key completed sends no request upstream and returns the data of that
\* fetch; a call issued later sends a request upstream.
C10_Memoization ==
    [][/\ \A a \in SOLANA_ASSETS :
            (Called(a) /\ lastFetch[a] # NoFetch) =>
               IF now - lastFetch[a].at < cacheTTL
               THEN /\ ~Upstream(a)
                    /\ calls' # calls =>
                          /\ client'.pc = "fulfilled"
                          /\ client'.data = lastFetch[a].data
               ELSE Upstream(a)
       /\ (ClientReturns /\ client.pc = "fulfilled"
             /\ client.op = "getAssetPrice") =>
            (resp'.status = "ok" /\ resp'.data = client.data)]_vars

\* A getAssetPrice of the client answered from the cache, some seconds
\* after the fetch.
C10_Witness ==
    /\ resp.req.op = "getAssetPrice"
    /\ resp.status = "ok"
    /\ resp.req.served = "cache"
    /\ resp.data = lastFetch[resp.req.asset].data
    /\ now > lastFetch[resp.req.asset].at

(***************************************************************************)
(* Claims about the quote cache, checked under SpecCache.                  *)
(***************************************************************************)
\* C11: after every completed cache operation the quote cache holds at most
\* MAX_CACHE_SIZE (100) entries, whatever the sequence of keys fetched.
C11_CacheBounded == Len(cache) <= MAX_CACHE_SIZE

\* The cache is full and its first key has been evicted.
C11_Witness == Len(cache) = MAX_CACHE_SIZE /\ cache[1].key > 1

(***************************************************************************)
(* Claims about the HTTP server, checked under SpecServer.                 *)
(***************************************************************************)
\* The payment of the request just answered was granted: it carried a
\* payment that the facilitator accepts.
Granted == exchange.header # "none" /\ verifyPayment(exchange.header, exchange.outcome)

\* The tool that the request just answered made the MCP server run, "" for
\* none.
ExecutedTool ==
    IF /\ exchange.handled = "transport"
       /\ exchange.method = "tools/call"
       /\ exchange.toolName \in DOMAIN TOOL_PRICING
    THEN exchange.toolName
    ELSE ""

\* C12: a tools/call request for a tool that comes without a granted payment
\* (no X-PAYMENT header, an invalid header, or a failed verification) is
\* answered with HTTP 402 and JSON-RPC error -32001 carrying the payment
\* requirements and the pricing of that tool, and the tool is not run.
C12_UnpaidCallIsDenied ==
    (/\ exchange.method = "tools/call"
     /\ exchange.toolName \in DOMAIN TOOL_PRICING
     /\ ~Granted)
        => /\ exchange.status = 402
           /\ exchange.code = 0 - 32001
           /\ exchange.payment =
                 createPaymentRequirements(exchange.toolName,
                                           resourceUrl(exchange.toolName),
                                           "rejects").value
           /\ exchange.pricing.amount = TOOL_PRICING[exchange.toolName].amount
           /\ exchange.pricing.description =
                 TOOL_PRICING[exchange.toolName].description
           /\ ExecutedTool = ""

(***************************************************************************)
(* Claims about getPortfolioSignals, checked under SpecPortfolio.          *)
(***************************************************************************)
PortfolioReturned == portfolioCall.state = "returned"

Rejected == {i \in 1..Len(portfolioCall.assets) :
                portfolioCall.analyses[i].status = "rejected"}

\* The returned signals of instrument i of the call.
SignalsOf(i) ==
    {j \in 1..Len(portfolioCall.result.signals) :
        portfolioCall.result.signals[j].symbol = portfolioCall.assets[i].symbol}

\* The analysis of instrument i succeeded and passes the filter.
Passes(i) ==
    /\ portfolioCall.analyses[i].status = "fulfilled"
    /\ \/ portfolioCall.analyses[i].signal.action = "HOLD"
       \/ atLeast(portfolioCall.analyses[i].signal.confidence,
                  portfolioCall.minConfidence)

\* C13, as stated: when exactly one of n analyses throws, the call returns
\* exactly n - 1 signals, none of them for the failed instrument.
C13_AllButTheFailed ==
    (PortfolioReturned /\ Cardinality(Rejected) = 1)
        => /\ Len(portfolioCall.result.signals) = Len(portfolioCall.assets) - 1
           /\ \A i \in Rejected : SignalsOf(i) = {}

\* C13, amended: the call returns whatever analyses throw; it returns no
\* signal for an instrument whose analysis threw, and as many signals as
\* there are successful analyses that pass the filter of minConfidence, so
\* at most n - 1 when one analysis throws.
C13_FailuresAreLeftOut ==
    PortfolioReturned =>
        /\ \A i \in Rejected : SignalsOf(i) = {}
        /\ Len(portfolioCall.result.signals)
              = Cardinality({i \in 1..Len(portfolioCall.assets) : Passes(i)})
        /\ Len(portfolioCall.result.signals)
              <= Len(portfolioCall.assets) - Cardinality(Rejected)

\* Of two instruments the second failed and the first was returned.
C13_Witness ==
    /\ PortfolioReturned
    /\ Len(portfolioCall.assets) = 2
    /\ Rejected = {2}
    /\ Len(portfolioCall.result.signals) = 1
    /\ SignalsOf(1) = {1}

\* C14: a successfully analysed instrument is in the result exactly when its
\* action is HOLD or its confidence is at least minConfidence.
C14_RetainedIffHoldOrConfident ==
    PortfolioReturned =>
        \A i \in 1..Len(portfolioCall.assets) :
            portfolioCall.analyses[i].status = "fulfilled"
                => /\ Passes(i) <=> SignalsOf(i) # {}
                   /\ \A j \in SignalsOf(i) :
                         portfolioCall.result.signals[j].signal
                             = portfolioCall.analyses[i].signal

\* A HOLD below minConfidence was retained and a BUY below it was dropped.
C14_Witness ==
    /\ PortfolioReturned
    /\ \E i, k \in 1..Len(portfolioCall.assets) :
          /\ portfolioCall.analyses[i].status = "fulfilled"
          /\ portfolioCall.analyses[i].signal.action = "HOLD"
          /\ lessThan(portfolioCall.analyses[i].signal.confidence,
                      portfolioCall.minConfidence)
          /\ SignalsOf(i) # {}
          /\ portfolioCall.analyses[k].status = "fulfilled"
          /\ portfolioCall.analyses[k].signal.action = "BUY"
          /\ lessThan(portfolioCall.analyses[k].signal.confidence,
                      portfolioCall.minConfidence)
          /\ SignalsOf(k) = {}

(***************************************************************************)
(* Claims about getMultiTimeframeRSI, checked under SpecMultiTimeframe.    *)
(***************************************************************************)
\* The read of position n gave candles and a current RSI.
HasCurrentRSI(n) ==
    /\ mtfCall.reads[n].ok
    /\ Len(mtfCall.reads[n].candles) >= MultiTimeframePeriod + 1

\* The positions of the request that have a current RSI, in request order.
UsablePositions ==
    SelectSeq([n \in 1..Len(mtfCall.intervals) |-> n], HasCurrentRSI)

\* C15: the call returns whatever reads fail: it is never rejected, and it
\* returns when the last interval has been read or has failed; an interval
\* whose candles cannot be read or whose current RSI is null is left out,
\* and every other requested interval appears once, in request order.
C15_FailedIntervalsAreLeftOut ==
    /\ \A i \in 1..Len(tasks) :
          tasks[i].op = "getMultiTimeframeRSI" =>
              /\ tasks[i].settled.status # "rejected"
              /\ Len(tasks[i].reads) = Len(tasks[i].intervals)
                    => mtfCall.state = "returned"
    /\ mtfCall.state = "returned" =>
          /\ Len(mtfCall.reads) = Len(mtfCall.intervals)
          /\ Len(mtfCall.results) = Len(UsablePositions)
          /\ \A j \in 1..Len(UsablePositions) :
                mtfCall.results[j].interval = mtfCall.intervals[UsablePositions[j]]

\* Of two intervals the first was returned and the second could not be
\* read.
C15_Witness ==
    /\ mtfCall.state = "returned"
    /\ Len(mtfCall.intervals) = 2
    /\ HasCurrentRSI(1)
    /\ ~mtfCall.reads[2].ok
    /\ Len(mtfCall.results) = 1
    /\ mtfCall.results[1].interval = mtfCall.intervals[1]

(***************************************************************************)
(* Claims about calculateRSI, checked under SpecRSI.                       *)
(***************************************************************************)
Returned == rsiCall.state = "returned"

\* v is a number of [0, 100].
InRange(v) == atLeast(v, zero) /\ atMost(v, fromInt(100))

\* C16: for every candle sequence and every period the output of
\* calculateRSI is as long as the input, and every value of it that is not
\* null lies in [0, 100].
C16_LengthAndRange ==
    Returned =>
        /\ Len(rsiCall.rsiValues) = Len(rsiCall.candles)
        /\ \A i \in 1..Len(rsiCall.rsiValues) :
              rsiCall.rsiValues[i] # null => InRange(rsiCall.rsiValues[i])

\* A call has returned a value strictly between 0 and 100.
C16_Witness ==
    /\ Returned
    /\ \E i \in 1..Len(rsiCall.rsiValues) :
          /\ rsiCall.rsiValues[i] # null
          /\ greaterThan(rsiCall.rsiValues[i], zero)
          /\ lessThan(rsiCall.rsiValues[i], fromInt(100))

\* The call is over, by a return or by an exception.
Over == rsiCall.state # "called"

TooFew == Len(rsiCall.candles) < rsiCall.period + 1

AllNull ==
    /\ Len(rsiCall.rsiValues) = Len(rsiCall.candles)
    /\ \A i \in 1..Len(rsiCall.rsiValues) : rsiCall.rsiValues[i] = null

\* C17, as stated: calculateRSI fails with InsufficientDataError when, and
\* only when, fewer than period + 1 candles are supplied.
C17_FailsIffTooFew ==
    Over => ((rsiCall.state = "failed" /\ rsiCall.error = "InsufficientDataError")
                <=> TooFew)

\* C17, amended: calculateRSI never fails; with fewer than period + 1
\* candles it returns one null per candle, with period + 1 candles or more
\* it returns a value at every position from period on.
C17_NeverFails ==
    Over => /\ Returned
            /\ rsiCall.error = "none"
            /\ TooFew => AllNull
            /\ ~TooFew => \A i \in 1..Len(rsiCall.candles) :
                             rsiCall.rsiValues[i] # null <=> i > rsiCall.period

\* A call with a short period and as many candles as the period has
\* returned.
C17_Witness ==
    /\ Returned
    /\ rsiCall.period = MaxPeriod
    /\ Len(rsiCall.candles) = MaxPeriod

\* C18: with period 14 and fewer than 15 candles every value of the output
\* is null, and there is one per input candle.
C18_AllNullBelowFifteen ==
    (Returned /\ rsiCall.period = DefaultPeriod
              /\ Len(rsiCall.candles) < DefaultPeriod + 1) => AllNull

\* A call with period 14 and 14 candles has returned.
C18_Witness ==
    /\ Returned
    /\ rsiCall.period = DefaultPeriod
    /\ Len(rsiCall.candles) = DefaultPeriod

StrictlyIncreasing(candles) ==
    \A i \in 1..(Len(candles) - 1) :
        lessThan(Number(candles[i].close), Number(candles[i + 1].close))

StrictlyDecreasing(candles) ==
    \A i \in 1..(Len(candles) - 1) :
        greaterThan(Number(candles[i].close), Number(candles[i + 1].close))

\* C19: for at least 15 candles with strictly increasing closes, every
\* value computed with period 14 that is not null is exactly 100.
C19_RisingIsHundred ==
    (Returned /\ rsiCall.period = DefaultPeriod
              /\ Len(rsiCall.candles) >= DefaultPeriod + 1
              /\ StrictlyIncreasing(rsiCall.candles))
        => \A i \in 1..Len(rsiCall.rsiValues) :
              rsiCall.rsiValues[i] # null => rsiCall.rsiValues[i] = fromInt(100)

\* Rising closes with changes of two sizes have given two values.
C19_Witness ==
    /\ Returned
    /\ rsiCall.period = DefaultPeriod
    /\ Len(rsiCall.candles) = DefaultPeriod + 2
    /\ StrictlyIncreasing(rsiCall.candles)
    /\ change(rsiCall.candles, 1) # change(rsiCall.candles, DefaultPeriod + 1)
    /\ rsiCall.rsiValues[DefaultPeriod + 1] = fromInt(100)
    /\ rsiCall.rsiValues[DefaultPeriod + 2] = fromInt(100)

\* C20: for at least 15 candles with strictly decreasing closes, every
\* value computed with period 14 that is not null is exactly 0.
C20_FallingIsZero ==
    (Returned /\ rsiCall.period = DefaultPeriod
              /\ Len(rsiCall.candles) >= DefaultPeriod + 1
              /\ StrictlyDecreasing(rsiCall.candles))
        => \A i \in 1..Len(rsiCall.rsiValues) :
              rsiCall.rsiValues[i] # null => rsiCall.rsiValues[i] = zero

\* Falling closes with changes of two sizes have given two values.
C20_Witness ==
    /\ Returned
    /\ rsiCall.period = DefaultPeriod
    /\ Len(rsiCall.candles) = DefaultPeriod + 2
    /\ StrictlyDecreasing(rsiCall.candles)
    /\ change(rsiCall.candles, 1) # change(rsiCall.candles, DefaultPeriod + 1)
    /\ rsiCall.rsiValues[DefaultPeriod + 1] = zero
    /\ rsiCall.rsiValues[DefaultPeriod + 2] = zero

(***************************************************************************)
(* More claims about the candle aggregator, checked under SpecIngest.      *)
(***************************************************************************)
\* The bucket of interval i that the observation ingested by the step falls
\* in.
BucketOfLast(a, i) ==
    (LastObserved(a).timestamp \div TIME_INTERVALS[i]) * TIME_INTERVALS[i]

\* The step ingests an observation of a.
Ingests(a) == observed'[a] # observed[a]

\* The newest bucket of a series that holds candles.
RECURSIVE NewestBucket(_)
NewestBucket(candles) ==
    IF Len(candles) = 1 THEN candles[1].timestamp
    ELSE Max(candles[1].timestamp, NewestBucket(Tail(candles)))

\* C26: an ingest whose bucket is older than the newest candle of the series
\* and for which the series holds no candle adds no candle: the series is
\* left as it was.
C26_NoRetroactiveCandle ==
    [][\A a \in SOLANA_ASSETS, i \in TimeInterval :
          ( /\ CreatesCandle(a, i)
            /\ ohlcStorage[a][i] # <<>>
            /\ BucketOfLast(a, i) < NewestBucket(ohlcStorage[a][i]) )
          => ohlcStorage'[a][i] = ohlcStorage[a][i]]_aggVars

\* C28: an ingest that lands in a bucket the series has a candle for leaves
\* the length of the series, every other candle, and the bucketStart, open
\* and volume of that candle as they were; its high and low are widened to
\* the price and its close is the price.
C28_UpdateChangesOnlyHighLowClose ==
    [][\A a \in SOLANA_ASSETS, i \in TimeInterval :
          (Ingests(a) /\ ~CreatesCandle(a, i)) =>
            /\ Len(ohlcStorage'[a][i]) = Len(ohlcStorage[a][i])
            /\ \A k \in 1..Len(ohlcStorage[a][i]) :
                  LET c == ohlcStorage[a][i][k]
                      d == ohlcStorage'[a][i][k]
                  IN  IF c.timestamp = BucketOfLast(a, i)
                      THEN /\ d.timestamp = c.timestamp
                           /\ d.open = c.open
                           /\ d.volume = c.volume
                           /\ d.high = MathMax(c.high, LastObserved(a).price)
                           /\ d.low = MathMin(c.low, LastObserved(a).price)
                           /\ d.close = LastObserved(a).price
                      ELSE d = c]_aggVars

\* The third observation fell in the hour of the first one, after one of a
\* later hour: the series of the hours keeps its two candles, the first one
\* opened at the first price and closed lower at the third.
C28_Witness ==
    \E a \in SOLANA_ASSETS :
        /\ Len(observed[a]) = 3
        /\ observed[a][1].timestamp = Epoch
        /\ observed[a][2].timestamp = Epoch + 2
        /\ observed[a][3].timestamp = Epoch + 1
        /\ observed[a][1].price = 2
        /\ observed[a][3].price = 1
        /\ Len(ohlcStorage[a]["1h"]) = 2
        /\ ohlcStorage[a]["1h"][1].open = 2
        /\ ohlcStorage[a]["1h"][1].high = 2
        /\ ohlcStorage[a]["1h"][1].low = 1
        /\ ohlcStorage[a]["1h"][1].close = 1
        /\ ohlcStorage[a]["1h"][2].open = observed[a][2].price
        /\ ohlcStorage[a]["1h"][2].close = observed[a][2].price

\* C29: after an ingest the series of every interval of the instrument
\* holds a candle of the bucket of the timestamp whose close is the price;
\* open, high and low are the price too when the ingest created the candle.
C29_EveryIntervalUpdated ==
    [][\A a \in SOLANA_ASSETS :
          Ingests(a) =>
            \A i \in TimeInterval :
                \E k \in 1..Len(ohlcStorage'[a][i]) :
                    LET d == ohlcStorage'[a][i][k]
                    IN  /\ d.timestamp = BucketOfLast(a, i)
                        /\ d.close = LastObserved(a).price
                        /\ CreatesCandle(a, i) =>
                              /\ d.open = LastObserved(a).price
                              /\ d.high = LastObserved(a).price
                              /\ d.low = LastObserved(a).price]_aggVars

\* A second observation one second after the first, in the same minute: it
\* created the newest candle of the seconds and updated the candle of every
\* longer interval.
C29_Witness ==
    \E a \in SOLANA_ASSETS :
        /\ Len(observed[a]) = 2
        /\ observed[a][1].timestamp = Epoch
        /\ observed[a][2].timestamp = Epoch + 1
        /\ observed[a][1].price = 1
        /\ observed[a][2].price = 2
        /\ Len(ohlcStorage[a]["1s"]) = 2
        /\ ohlcStorage[a]["1s"][2] = newCandle(Epoch + 1, 2)
        /\ \A i \in TimeInterval \ {"1s"} :
              /\ Len(ohlcStorage[a][i]) = 1
              /\ ohlcStorage[a][i][1].open = 1
              /\ ohlcStorage[a][i][1].high = 2
              /\ ohlcStorage[a][i][1].close = 2

(***************************************************************************)
(* More claims about the quote cache, checked under SpecCache.             *)
(***************************************************************************)
\* The entries of the cache that the step removes.
Evicted == {k \in 1..Len(cache) :
               \A j \in 1..Len(cache') : cache'[j].key # cache[k].key}

\* C30: the entry that a store removes from the full cache is one with the
\* earliest stored fetch time, also when entries were refreshed, and the
\* entry that was just written stays.
C30_EvictsOldest ==
    [][\A k \in Evicted :
          /\ \A j \in 1..Len(cache) : cache[k].timestamp <= cache[j].timestamp
          /\ \E j \in 1..Len(cache') :
                /\ cache'[j].timestamp = now
                /\ \A i \in 1..Len(cache) : cache[i].key # cache'[j].key]_vars

(***************************************************************************)
(* More claims about the service, checked under Spec.                      *)
(***************************************************************************)
\* The poller has fired once: its requests in flight were sent at that
\* firing, at nextPoll - pollInterval.
FiredOnce == nextPoll = Epoch + 2 * pollInterval

\* C27: a call for a key issued less than cacheTTL after a request for the
\* same key was sent upstream, and while that request is in flight, sends
\* no request of its own.
C27_OneFetchInFlight ==
    [][\A a \in SOLANA_ASSETS :
          ( /\ FiredOnce
            /\ pollInflight[a] > 0
            /\ now - (nextPoll - pollInterval) < cacheTTL
            /\ calls' # calls
            /\ (resp'.req.asset = a \/ client'.asset = a) )
          => ~Upstream(a)]_vars

(***************************************************************************)
(* Claims about the detectors of RSIService, checked under SpecSignals.    *)
(***************************************************************************)
\* The call of detector op has returned.
SignalReturned(op) == signalCall.state = "returned" /\ signalCall.op = op

\* The RSI value is a number below, or above, the whole number n.
NumberBelow(r, n) == r # null /\ below(r, n)
NumberAbove(r, n) == r # null /\ above(r, n)

\* The call of detectBuySignal for asset type t has ended: it returned or
\* it threw.
BuyCallEnded(t) ==
    /\ signalCall.op = "detectBuySignal"
    /\ signalCall.assetType = t
    /\ signalCall.state \in {"returned", "threw"}

\* The call returned signal = true.
Signalled == signalCall.state = "returned" /\ signalCall.result.signal

\* The RSI of the call crossed the level upwards at its last value.
CrossedUp(level) ==
    LET n == Len(signalCall.rsi)
    IN  /\ n >= 2
        /\ NumberBelow(signalCall.rsi[n - 1], level)
        /\ NumberAbove(signalCall.rsi[n], level)

\* The current close is above the previous close.  The current and the
\* previous close are the closes of the candles at the positions of the
\* current and the previous RSI value (with a list of candles of the length
\* of the RSI list, as analyzeAsset passes them, the last two closes);
\* a call that has no candle at these positions has no such closes.
CloseRose ==
    LET n == Len(signalCall.rsi)
    IN  /\ n >= 2
        /\ Len(signalCall.candles) >= n
        /\ signalCall.candles[n].close > signalCall.candles[n - 1].close

\* C21: for a WrappedBTC instrument detectBuySignal gives signal = true
\* exactly when the previous RSI is below 30, the current RSI is above 30
\* and the current close is above the previous close; an RSI series that
\* ends 28, 32 on a rising close gives signal = true with a reason that
\* names the oversold reversal and a confidence of at least 0.5.  This is
\* over every call, with as many candles as RSI values, fewer or more; a
\* call that throws gives no signal.
C21_WrappedBtcBuyRule ==
    BuyCallEnded("wrapped-btc") =>
        LET rsi == signalCall.rsi
            n == Len(rsi)
        IN  /\ Signalled <=> (CrossedUp(30) /\ CloseRose)
            /\ ( /\ n >= 2
                 /\ rsi[n - 1] = fromInt(28)
                 /\ rsi[n] = fromInt(32)
                 /\ CloseRose )
               => /\ Signalled
                  /\ \E k \in 1..Len(signalCall.result.reason) :
                        signalCall.result.reason[k] = "RSI oversold reversal"
                  /\ atLeast(signalCall.result.confidence, decimal(5, 10))

\* The RSI went from 28 to 32 while the close rose by less than half a
\* percent: a signal of confidence 0.5.
C21_Witness ==
    /\ SignalReturned("detectBuySignal")
    /\ signalCall.assetType = "wrapped-btc"
    /\ Len(signalCall.rsi) = 3
    /\ signalCall.rsi[2] = fromInt(28)
    /\ signalCall.rsi[3] = fromInt(32)
    /\ signalCall.candles[2].close = 1000
    /\ signalCall.candles[3].close = 1004
    /\ signalCall.result.signal
    /\ signalCall.result.confidence = decimal(5, 10)
    /\ signalCall.result.reason = <<"RSI oversold reversal">>

\* Stop loss, take profit and overbought level of the threshold table.
StopLossOf(t) ==
    IF t = "wrapped-btc" THEN decimal(3, 100)
    ELSE IF t = "rwa-stocks" THEN decimal(25, 1000) ELSE decimal(15, 1000)
TakeProfitOf(t) ==
    IF t = "wrapped-btc" THEN decimal(5, 100)
    ELSE IF t = "rwa-stocks" THEN decimal(4, 100) ELSE decimal(3, 100)
OverboughtOf(t) ==
    IF t = "wrapped-btc" THEN 70 ELSE IF t = "rwa-stocks" THEN 65 ELSE 75

\* entryPrice * (1 - stopLoss) and entryPrice * (1 + takeProfit) of the
\* call.
StopLossLevel ==
    times(Number(signalCall.entryPrice),
          minus(fromInt(1), StopLossOf(signalCall.assetType)))
TakeProfitLevel ==
    times(Number(signalCall.entryPrice),
          plus(fromInt(1), TakeProfitOf(signalCall.assetType)))

\* The three conditions of an exit on the inputs of the call.
StopLossHit ==
    atMost(Number(signalCall.candles[Len(signalCall.candles)].close), StopLossLevel)
TakeProfitHit ==
    atLeast(Number(signalCall.candles[Len(signalCall.candles)].close),
            TakeProfitLevel)
Overbought ==
    /\ signalCall.rsi # <<>>
    /\ NumberAbove(signalCall.rsi[Len(signalCall.rsi)],
                   OverboughtOf(signalCall.assetType))

\* C22: detectExitSignal reports the first that holds of stop loss, take
\* profit and RSI above the overbought level, in that order, and no exit
\* when none holds; it always returns the levels entryPrice * (1 - stop
\* loss) and entryPrice * (1 + take profit).
C22_ExitPrecedence ==
    SignalReturned("detectExitSignal") =>
        LET result == signalCall.result
        IN  /\ result.shouldExit <=> (StopLossHit \/ TakeProfitHit \/ Overbought)
            /\ result.reason =
                  (IF StopLossHit THEN "Stop loss triggered"
                   ELSE IF TakeProfitHit THEN "Take profit target reached"
                   ELSE IF Overbought THEN "RSI overbought"
                   ELSE "No exit signal")
            /\ result.stopLoss = StopLossLevel
            /\ result.takeProfit = TakeProfitLevel

\* The price is under the stop loss while the RSI is overbought: the stop
\* loss is reported.
C22_Witness ==
    /\ SignalReturned("detectExitSignal")
    /\ signalCall.assetType = "gold"
    /\ StopLossHit
    /\ Overbought
    /\ signalCall.candles[2].close = 980
    /\ signalCall.result.shouldExit
    /\ signalCall.result.reason = "Stop loss triggered"
    /\ signalCall.result.stopLoss = fromInt(985)
    /\ signalCall.result.takeProfit = fromInt(1030)

\* The window of the call: the last lookback candles and RSI values.
HasWindow ==
    /\ Len(signalCall.rsi) >= signalCall.lookback
    /\ Len(signalCall.candles) >= signalCall.lookback
WindowCandles == lastOf(signalCall.candles, signalCall.lookback)
WindowRSIValues == lastOf(signalCall.rsi, signalCall.lookback)

\* The values v[1], ..., v[n] rise strictly, or fall strictly.
Monotonic(v, n) ==
    \/ \A i \in 1..(n - 1) : v[i] < v[i + 1]
    \/ \A i \in 1..(n - 1) : v[i] > v[i + 1]

MonotonicRSI(r, n) ==
    /\ \A i \in 1..n : r[i] # null
    /\ \/ \A i \in 1..(n - 1) : lessThan(r[i], r[i + 1])
       \/ \A i \in 1..(n - 1) : greaterThan(r[i], r[i + 1])

\* C23: on a window whose lows, highs and RSI values are each strictly
\* monotonic detectRSIDivergence returns bullish = false and bearish =
\* false.
C23_NoDivergenceOnMonotonic ==
    ( /\ SignalReturned("detectRSIDivergence")
      /\ HasWindow
      /\ Monotonic([i \in 1..signalCall.lookback |-> WindowCandles[i].low],
                   signalCall.lookback)
      /\ Monotonic([i \in 1..signalCall.lookback |-> WindowCandles[i].high],
                   signalCall.lookback)
      /\ MonotonicRSI(WindowRSIValues, signalCall.lookback) )
    => /\ ~signalCall.result.bullish
       /\ ~signalCall.result.bearish

\* Eleven candles that fall while the RSI rises, with the default
\* lookback.
C23_Witness ==
    /\ SignalReturned("detectRSIDivergence")
    /\ signalCall.lookback = DefaultLookback
    /\ Len(signalCall.candles) = DefaultLookback + 1
    /\ Len(signalCall.rsi) = DefaultLookback + 1
    /\ \A i \in 1..DefaultLookback :
          /\ signalCall.candles[i].low > signalCall.candles[i + 1].low
          /\ signalCall.candles[i].high > signalCall.candles[i + 1].high
          /\ lessThan(signalCall.rsi[i], signalCall.rsi[i + 1])
    /\ ~signalCall.result.bullish
    /\ ~signalCall.result.bearish

(***************************************************************************)
(* Claims about analyzeAsset, checked under SpecAnalysis.                  *)
(***************************************************************************)
\* The analysis of an instrument of the category has returned a result.
Analysed(category) ==
    /\ analysisCall.state = "returned"
    /\ analysisCall.asset.category = category
    /\ analysisCall.result.status = "fulfilled"

\* C24: the analysis of a GoldToken instrument uses RSI period 14.
C24_GoldPeriodIs14 ==
    Analysed("gold") => analysisCall.result.rsi.period = 14

(***************************************************************************)
(* More claims about calculateRSI, checked under SpecRSI.                  *)
(***************************************************************************)
\* The gain and the loss of change k of the call: the rise, or the fall, of
\* the close from candle k to candle k + 1.
RefGain(k) ==
    LET up == minus(Number(rsiCall.candles[k + 1].close),
                    Number(rsiCall.candles[k].close))
    IN  IF greaterThan(up, zero) THEN up ELSE zero
RefLoss(k) ==
    LET down == minus(Number(rsiCall.candles[k].close),
                      Number(rsiCall.candles[k + 1].close))
    IN  IF greaterThan(down, zero) THEN down ELSE zero

\* The sum of the first k gains, or losses, added one after the other.
RECURSIVE RefTotal(_, _)
RefTotal(isGain, k) ==
    IF k = 0 THEN zero
    ELSE plus(RefTotal(isGain, k - 1), IF isGain THEN RefGain(k) ELSE RefLoss(k))

\* Wilder's average of the first i values, i >= period: the simple mean of
\* the first period values, then (avg * (period - 1) + value) / period.
RECURSIVE RefAverage(_, _)
RefAverage(isGain, i) ==
    IF i = rsiCall.period
    THEN divide(RefTotal(isGain, rsiCall.period), fromInt(rsiCall.period))
    ELSE divide(plus(times(RefAverage(isGain, i - 1), fromInt(rsiCall.period - 1)),
                     IF isGain THEN RefGain(i) ELSE RefLoss(i)),
                fromInt(rsiCall.period))

\* The reference RSI after i changes: 100 when the average loss is 0, else
\* 100 - 100 / (1 + avgGain / avgLoss).
RefRSIOf(avgGain, avgLoss) ==
    IF avgLoss = zero THEN fromInt(100)
    ELSE minus(fromInt(100),
               divide(fromInt(100), plus(fromInt(1), divide(avgGain, avgLoss))))

RefRSI(i) == RefRSIOf(RefAverage(TRUE, i), RefAverage(FALSE, i))

\* C31: with at least period + 1 candles the positions up to period carry
\* no value and every later position i + 1 carries the reference Wilder
\* value after i changes.
C31_WilderReference ==
    (Returned /\ Len(rsiCall.candles) >= rsiCall.period + 1) =>
        /\ Len(rsiCall.rsiValues) = Len(rsiCall.candles)
        /\ \A i \in 1..rsiCall.period : rsiCall.rsiValues[i] = null
        /\ \A i \in rsiCall.period..(Len(rsiCall.candles) - 1) :
              /\ rsiCall.rsiValues[i + 1] # null
              /\ rsiCall.rsiValues[i + 1] = RefRSI(i)

\* Closes 1, 3, 2, 1 with period 2: the first value is the double next to
\* 200 / 3, the smoothed one the double just below 40, where the mean of
\* the last two changes would give 0.
C31_Witness ==
    /\ Returned
    /\ rsiCall.period = 2
    /\ rsiCall.candles = <<candle(1), candle(3), candle(2), candle(1)>>
    /\ lessThan(rsiCall.rsiValues[3], divide(fromInt(200), fromInt(3)))
    /\ greaterThan(rsiCall.rsiValues[3], decimal(6666, 100))
    /\ lessThan(rsiCall.rsiValues[4], fromInt(40))
    /\ greaterThan(rsiCall.rsiValues[4], decimal(3999, 100))

(***************************************************************************)
(* More claims about detectBuySignal, checked under SpecSignals.           *)
(***************************************************************************)
\* The closes at the positions of the last three RSI values rise strictly:
\* the last three closes of a list of candles of the length of the RSI
\* list, as analyzeAsset passes them.
ThreeHigherCloses ==
    LET n == Len(signalCall.rsi)
    IN  /\ n >= 3
        /\ Len(signalCall.candles) >= n
        /\ signalCall.candles[n - 2].close < signalCall.candles[n - 1].close
        /\ signalCall.candles[n - 1].close < signalCall.candles[n].close

\* C33: for a GoldToken instrument detectBuySignal gives signal = true
\* exactly when the previous RSI is below 25, the current RSI is above 25
\* and the last three closes rise strictly; with fewer than three candles
\* there is no signal.  This is over every call, with as many candles as
\* RSI values, fewer or more; a call that throws gives no signal.
C33_GoldBuyRule ==
    BuyCallEnded("gold") =>
        /\ Signalled <=> (CrossedUp(25) /\ ThreeHigherCloses)
        /\ Len(signalCall.candles) < 3 => ~Signalled

\* Closes 1000, 1004, 1010 while the RSI goes from 24 to 28: a signal.
C33_Witness ==
    /\ BuyCallEnded("gold")
    /\ Signalled
    /\ signalCall.rsi = <<null, fromInt(24), fromInt(28)>>
    /\ signalCall.candles = <<candle(1000), candle(1004), candle(1010)>>
    /\ signalCall.result.signal
    /\ signalCall.result.reason = <<"RSI oversold reversal with consecutive higher closes">>

\* The call has fewer than two RSI values, or its current or previous RSI
\* is null.
NoTwoValues ==
    LET n == Len(signalCall.rsi)
    IN  n < 2 \/ signalCall.rsi[n] = null \/ signalCall.rsi[n - 1] = null

\* C34: for every category and every input detectBuySignal returns a
\* result with a confidence between 0 and 1; a signal has at least the base
\* 0.5; without a signal the confidence is 0 and the reason is not empty;
\* with fewer than two RSI values or a null current or previous RSI it
\* returns signal = false.
C34_BuyConfidenceRange ==
    (signalCall.op = "detectBuySignal" /\ signalCall.state # "called") =>
        /\ signalCall.state = "returned"
        /\ LET result == signalCall.result
           IN  /\ atLeast(result.confidence, zero)
               /\ atMost(result.confidence, fromInt(1))
               /\ result.signal => atLeast(result.confidence, decimal(5, 10))
               /\ ~result.signal =>
                     /\ result.confidence = zero
                     /\ Len(result.reason) >= 1
                     /\ \A k \in 1..Len(result.reason) : result.reason[k] # ""
               /\ NoTwoValues => ~result.signal

(***************************************************************************)
(* More claims about detectRSIDivergence, checked under SpecSignals.       *)
(***************************************************************************)
\* The positions of the window whose low is strictly below, or whose high
\* is strictly above, that of both neighbours in the window.
Minima ==
    {i \in 2..(signalCall.lookback - 1) :
        /\ WindowCandles[i].low < WindowCandles[i - 1].low
        /\ WindowCandles[i].low < WindowCandles[i + 1].low}
Maxima ==
    {i \in 2..(signalCall.lookback - 1) :
        /\ WindowCandles[i].high > WindowCandles[i - 1].high
        /\ WindowCandles[i].high > WindowCandles[i + 1].high}

\* The most recent position of a set of positions, and the one before it.
Latest(S) == CHOOSE i \in S : \A j \in S : j <= i
Before(S) == Latest(S \ {Latest(S)})

\* The RSI of the window at position i is a number above, or below, the
\* one at position j.
RSIHigherAt(i, j) ==
    /\ WindowRSIValues[i] # null
    /\ WindowRSIValues[j] # null
    /\ greaterThan(WindowRSIValues[i], WindowRSIValues[j])
RSILowerAt(i, j) == RSIHigherAt(j, i)

\* The last two minima: a lower low on a higher RSI.  The last two maxima:
\* a higher high on a lower RSI.
BullishPattern ==
    /\ Cardinality(Minima) >= 2
    /\ WindowCandles[Latest(Minima)].low < WindowCandles[Before(Minima)].low
    /\ RSIHigherAt(Latest(Minima), Before(Minima))
BearishPattern ==
    /\ Cardinality(Maxima) >= 2
    /\ WindowCandles[Latest(Maxima)].high > WindowCandles[Before(Maxima)].high
    /\ RSILowerAt(Latest(Maxima), Before(Maxima))

\* Every position of the window has an RSI value.
CompleteWindow ==
    HasWindow /\ \A i \in 1..signalCall.lookback : WindowRSIValues[i] # null

\* C35 as stated: on a call with at least lookback candles and RSI
\* positions, bullish is true exactly when the last two local minima of the
\* window show a lower low on a higher RSI, and bearish exactly when the
\* last two local maxima show a higher high on a lower RSI.
C35_DivergenceExactlyOnPattern ==
    (SignalReturned("detectRSIDivergence") /\ HasWindow) =>
        /\ signalCall.result.bullish <=> BullishPattern
        /\ signalCall.result.bearish <=> BearishPattern

\* C35 amended: bullish is true exactly when both series have at least
\* lookback entries, every RSI position of the window has a value and the
\* last two local minima show a lower low on a higher RSI; bearish likewise
\* on the maxima; with fewer than two extrema of a type its flag is false.
C35_DivergenceOnCompleteWindow ==
    SignalReturned("detectRSIDivergence") =>
        /\ signalCall.result.bullish <=> (CompleteWindow /\ BullishPattern)
        /\ signalCall.result.bearish <=> (CompleteWindow /\ BearishPattern)
        /\ (HasWindow /\ Cardinality(Minima) < 2) => ~signalCall.result.bullish
        /\ (HasWindow /\ Cardinality(Maxima) < 2) => ~signalCall.result.bearish

\* A window of five with the minima 2 and 1 at the second and fourth
\* candle, the RSI 40 and 60 there: a bullish divergence; the highs mirror
\* the lows, so the maxima are there too and there is no bearish one.
C35_Witness ==
    /\ SignalReturned("detectRSIDivergence")
    /\ signalCall.lookback = ShortLookback
    /\ Len(signalCall.candles) = ShortLookback
    /\ [i \in 1..ShortLookback |-> signalCall.candles[i].low] = <<3, 2, 3, 1, 2>>
    /\ Minima = {2, 4}
    /\ Maxima = {2, 4}
    /\ CompleteWindow
    /\ signalCall.rsi[2] = fromInt(40)
    /\ signalCall.rsi[4] = fromInt(60)
    /\ signalCall.result.bullish
    /\ ~signalCall.result.bearish

(***************************************************************************)
(* More claims about getPortfolioSignals, checked under SpecPortfolio.     *)
(***************************************************************************)
\* The returned signals with the action, and those of the category with it.
Returned36(action) ==
    {j \in 1..Len(portfolioCall.result.signals) :
        portfolioCall.result.signals[j].signal.action = action}
ReturnedIn(category, action) ==
    {j \in Returned36(action) :
        portfolioCall.result.signals[j].category = category}

\* The tally that the summary holds for the category: zeros when it holds
\* no entry.
TallyOf(category) ==
    IF category \in DOMAIN portfolioCall.result.summary.byCategory
    THEN portfolioCall.result.summary.byCategory[category]
    ELSE NoTally

\* C36: the three totals of the summary add up to the number of returned
\* signals, each total is the number of returned signals with its action,
\* the counts of a category are the numbers of returned signals of that
\* category with each action, and the summary has an entry for exactly the
\* categories of the returned signals.
C36_SummaryAgreesWithSignals ==
    PortfolioReturned =>
        LET summary == portfolioCall.result.summary
            signals == portfolioCall.result.signals
        IN  /\ summary.totalBuySignals + summary.totalSellSignals
                  + summary.totalHoldSignals = Len(signals)
            /\ summary.totalBuySignals = Cardinality(Returned36("BUY"))
            /\ summary.totalSellSignals = Cardinality(Returned36("SELL"))
            /\ summary.totalHoldSignals = Cardinality(Returned36("HOLD"))
            /\ \A c \in AssetTypes :
                  /\ TallyOf(c).buy = Cardinality(ReturnedIn(c, "BUY"))
                  /\ TallyOf(c).sell = Cardinality(ReturnedIn(c, "SELL"))
                  /\ TallyOf(c).hold = Cardinality(ReturnedIn(c, "HOLD"))
            /\ DOMAIN summary.byCategory
                  = {signals[j].category : j \in 1..Len(signals)}

\* Two wrapped-btc instruments, a SELL and a HOLD: two signals that are
\* counted in the one entry of their category.
C36_Witness ==
    /\ PortfolioReturned
    /\ Len(portfolioCall.assets) = 2
    /\ Len(portfolioCall.result.signals) = 2
    /\ portfolioCall.result.summary.totalBuySignals = 0
    /\ portfolioCall.result.summary.totalSellSignals = 1
    /\ portfolioCall.result.summary.totalHoldSignals = 1
    /\ DOMAIN portfolioCall.result.summary.byCategory = {"wrapped-btc"}
    /\ portfolioCall.result.summary.byCategory["wrapped-btc"]
          = [buy |-> 0, sell |-> 1, hold |-> 1]

(***************************************************************************)
(* More claims about analyzeAsset, checked under SpecAnalysis.             *)
(***************************************************************************)
\* The analysis of the call was fulfilled.
Fulfilled ==
    analysisCall.state = "returned" /\ analysisCall.result.status = "fulfilled"

\* The call returns a result in this step.
Fulfils ==
    /\ analysisCall.state = "called"
    /\ analysisCall'.state = "returned"
    /\ analysisCall'.result.status = "fulfilled"

\* What detectBuySignal gives on the candles and their RSI of the period of
\* the category.
BuySignalOn(candles, t) ==
    detectBuySignal(calculateRSI(candles, RSI_THRESHOLDS[t].period), candles, t)

\* The fields that only a BUY carries.
BuyFields(signal) ==
    <<signal.entryPrice, signal.stopLoss, signal.takeProfit, signal.riskRewardRatio>>

\* The signal of a result agrees with the buy signal on the candles read.
Follows(signal, value, candles, category, buySignal) ==
    LET overbought == NumberAbove(value, OverboughtOf(category))
    IN  /\ signal.action \in {"BUY", "SELL", "HOLD"}
        /\ signal.action = "BUY" <=> buySignal.signal
        /\ signal.action = "SELL" <=> (~buySignal.signal /\ overbought)
        /\ signal.action = "SELL" => signal.confidence = decimal(6, 10)
        /\ signal.action = "HOLD" => signal.confidence = zero
        /\ signal.action = "BUY" =>
              /\ \A k \in 1..4 : BuyFields(signal)[k] # undefined
              /\ signal.entryPrice = Number(candles[Len(candles)].close)
              /\ atLeast(signal.confidence, buySignal.confidence)
        /\ signal.action # "BUY" =>
              \A k \in 1..4 : BuyFields(signal)[k] = undefined
        /\ atLeast(signal.confidence, zero)
        /\ atMost(signal.confidence, fromInt(1))

\* The 50-period exponential average of the closes of the candles at
\* candle i, i >= 50, as the fraction n / d: the mean of the first 50
\* closes, then (2 * close + 49 * average) / 51.
RECURSIVE RefEMA50(_, _)
RefEMA50(candles, i) ==
    LET RECURSIVE Total(_)
        Total(k) == IF k = 0 THEN 0 ELSE Total(k - 1) + candles[k].close
    IN  IF i = 50
        THEN [n |-> Total(50), d |-> 50]
        ELSE LET e == RefEMA50(candles, i - 1)
             IN  [n |-> 2 * candles[i].close * e.d + 49 * e.n,
                  d |-> 51 * e.d]

\* The last close is above the EMA50 of the closes.
AboveEMA50(candles) ==
    LET n == Len(candles)
    IN  /\ n >= 50
        /\ candles[n].close * RefEMA50(candles, n).d > RefEMA50(candles, n).n

\* The RSI(period) of the candles crossed the level upwards at the last
\* candle.
RSICrossedUp(values, level) ==
    LET n == Len(values)
    IN  /\ n >= 2
        /\ NumberBelow(values[n - 1], level)
        /\ NumberAbove(values[n], level)

\* The last close is above the one before.
LastCloseRose(candles) ==
    LET n == Len(candles)
    IN  n >= 2 /\ candles[n].close > candles[n - 1].close

\* C32: for a TokenizedStock instrument detectBuySignal gives signal = true
\* only when the previous RSI is below 35, the current RSI is above 35, the
\* current close is above the previous close and the current close is
\* above the EMA50 of the closes.  The calls are those of the program: an
\* analysis passes the candles it read and their RSI of the period of the
\* category.
C32_StockBuyRule ==
    [][(Fulfils /\ analysisCall'.asset.category = "rwa-stocks") =>
          (BuySignalOn(analysisCall'.read.candles, "rwa-stocks").signal =>
              /\ RSICrossedUp(calculateRSI(analysisCall'.read.candles,
                                           RSI_THRESHOLDS["rwa-stocks"].period), 35)
              /\ LastCloseRose(analysisCall'.read.candles)
              /\ AboveEMA50(analysisCall'.read.candles))]_vars

\* A TokenizedStock analysis of 50 candles that fell to 997 and then rose
\* to 1027, above their EMA50 of 1023.04: a BUY.
C32_Witness ==
    /\ Fulfilled
    /\ analysisCall.asset.category = "rwa-stocks"
    /\ Len(analysisCall.read.candles) = 50
    /\ analysisCall.read.candles[49].close = 997
    /\ analysisCall.read.candles[50].close = 1027
    /\ analysisCall.result.signal.action = "BUY"
    /\ analysisCall.result.signal.entryPrice = fromInt(1027)

\* C37: the action of an analysis is BUY exactly when detectBuySignal
\* signals; it is SELL, with confidence 0.6, exactly when there is no buy
\* signal and the current RSI is above the overbought level of the
\* category; otherwise it is HOLD with confidence 0.  A BUY carries
\* entryPrice, stopLoss, takeProfit and riskRewardRatio, the entry price
\* being the last close; no other action carries any of them.  The
\* confidence is between 0 and 1.
C37_ActionFollowsSignals ==
    [][Fulfils =>
          Follows(analysisCall'.result.signal, analysisCall'.result.rsi.value,
                  analysisCall'.read.candles, analysisCall'.asset.category,
                  BuySignalOn(analysisCall'.read.candles,
                              analysisCall'.asset.category))]_vars

\* A WrappedBTC analysis of 16 candles that fell to 997 and then rose to
\* 1005: a BUY of confidence 0.6 at the entry price 1005.
C37_Witness ==
    /\ Fulfilled
    /\ analysisCall.asset.category = "wrapped-btc"
    /\ Len(analysisCall.read.candles) = 16
    /\ analysisCall.read.candles[15].close = 997
    /\ analysisCall.read.candles[16].close = 1005
    /\ analysisCall.result.signal.action = "BUY"
    /\ analysisCall.result.signal.confidence = decimal(6, 10)
    /\ analysisCall.result.signal.entryPrice = fromInt(1005)
    /\ analysisCall.result.signal.riskRewardRatio # undefined

(***************************************************************************)
(* More claims about the HTTP server, checked under SpecServer.            *)
(***************************************************************************)
\* C38: a tools/call request whose payment was verified and settled is
\* handed to the transport of its session and its tool is run; it is never
\* rejected after the settlement.
C38_SettledCallIsExecuted ==
    exchange.settled = "settled" =>
        /\ exchange.handled = "transport"
        /\ ExecutedTool # ""

\* The step answers a request.
HandlerStep == exchange' # NoExchange

\* C39: a settlement is attempted only for a tools/call whose payment was
\* verified, and such a request is never answered 402; when the settlement
\* throws, the request goes on to the session lookup as it does after a
\* settlement that succeeded, and with the id of an open session its tool
\* is run.
C39_SettlementFailureIsNotFatal ==
    [][ /\ \A h \in BagToSet(handlers') :
              h.pc = "settling" =>
                  /\ bodyMethod(h.req) = "tools/call"
                  /\ h.req.header # "none"
                  /\ verifyPayment(h.req.header, h.outcome)
        /\ exchange'.settled # "none" =>
              /\ \E h \in BagToSet(handlers) :
                     /\ h.pc = "settling"
                     /\ h.req.toolName = exchange'.toolName
                     /\ handlers' = handlers (-) SetToBag({h})
              /\ exchange'.method = "tools/call"
              /\ toolPricing(exchange'.toolName).truthy
              /\ exchange'.header # "none"
              /\ verifyPayment(exchange'.header, exchange'.outcome)
              /\ exchange'.status # 402
        /\ exchange'.status = 402 => exchange'.settled = "none"
        /\ exchange'.settled = "failed" =>
              /\ exchange'.status \in {200, 400, 500}
              /\ exchange'.status = 200 <=> exchange'.sessionId \in transports
              /\ exchange'.status = 500 <=> exchange'.sessionId \in ObjectPrototype
              /\ exchange'.status = 200 =>
                    /\ exchange'.handled = "transport"
                    /\ exchange'.toolName \in DOMAIN TOOL_PRICING =>
                          ExecutedTool' = exchange'.toolName ]_vars

\* The settlement of a verified payment threw and the tool was run.
C39_Witness ==
    /\ exchange.settled = "failed"
    /\ exchange.status = 200
    /\ exchange.handled = "transport"
    /\ ExecutedTool = "get-current-prices"

\* The request of the step is an initialize request without session id.
InitializesSession ==
    /\ exchange'.sessionId = ""
    /\ exchange'.shape = "message"
    /\ exchange'.method = "initialize"

\* The session table gains an entry only by an initialize request without
\* session id that is handed to its new transport, one entry at a time, and
\* loses one only when a transport closes.
SessionTableFollowsSessions ==
    /\ transports' \ transports # {} =>
          /\ Cardinality(transports' \ transports) = 1
          /\ InitializesSession
          /\ exchange'.handled = "transport"
    /\ (HandlerStep /\ InitializesSession /\ exchange'.handled = "transport")
          => transports' \ transports # {}
    /\ transports \ transports' # {} =>
          /\ Cardinality(transports \ transports') = 1
          /\ ~HandlerStep

\* The request of the step is handed to a transport only with the id of an
\* open session or as an initialize request without session id.
HandedOnlyWithSession ==
    (HandlerStep /\ exchange'.handled = "transport") =>
        \/ exchange'.sessionId # "" /\ exchange'.sessionId \in transports
        \/ InitializesSession

\* C40: a request is handed to a transport only with the id of
\* an open session or as an initialize request without session id; every
\* other request is answered 400 and changes no session; the session table
\* follows the opening and the closing of sessions.
C40_OthersAreAnswered400 ==
    [][ /\ HandedOnlyWithSession
        /\ (HandlerStep /\ exchange'.handled # "transport") =>
              /\ exchange'.status = 400
              /\ transports' = transports
        /\ SessionTableFollowsSessions ]_vars

====
